---- MODULE Spec2Model ----
(***************************************************************************)
(* Model of import-tickers (penny-vault): the asset record, the field      *)
(* merge (MergeAsset), the list merge (MergeAssetList), the composite-figi *)
(* de-duplication and the root command with its safety valve.              *)
(*                                                                         *)
(* Records live in a heap (a sequence of Asset records); the Go code       *)
(* passes *Asset pointers, modelled as indices into the heap, so that      *)
(* in-place mutation and aliasing behave as in the program.                *)
(***************************************************************************)
EXTENDS Integers, Sequences, FiniteSets, TLC

(***************************************************************************)
(* Asset types (common.AssetType)                                          *)
(***************************************************************************)
CommonStock == "Common Stock"
ETF == "Exchange Traded Fund"
ETN == "Exchange Traded Note"
CEF == "Closed-End Fund"
MutualFund == "Mutual Fund"
ADRC == "American Depository Receipt Common"
FRED == "FRED"
UnknownAsset == "Unknown"

(***************************************************************************)
(* Bounds of the model                                                     *)
(***************************************************************************)
MaxVaried == 1
MaxList == 2
MaxDedup == 3
MaxThreshold == 2
MaxFeed == 1

(***************************************************************************)
(* The Asset struct.  UpdateReason is the formatted string                 *)
(* "<field> changed '<old>' to '<new>'", kept as the triple it is built    *)
(* from; <<>> is the empty string.                                         *)
(***************************************************************************)
AssetFields ==
  {"Ticker", "Name", "Description", "PrimaryExchange", "AssetType",
   "CompositeFigi", "ShareClassFigi", "CUSIP", "ISIN", "CIK", "ListingDate",
   "DelistingDate", "Industry", "Sector", "Icon", "IconUrl", "CorporateUrl",
   "HeadquartersLocation", "SimilarTickers", "PolygonDetailAge",
   "FidelityCusip", "Updated", "UpdateReason", "LastUpdated", "Source"}

EmptyAsset ==
  [Ticker |-> "", Name |-> "", Description |-> "", PrimaryExchange |-> "",
   AssetType |-> "", CompositeFigi |-> "", ShareClassFigi |-> "",
   CUSIP |-> "", ISIN |-> "", CIK |-> "", ListingDate |-> "",
   DelistingDate |-> "", Industry |-> "", Sector |-> "", Icon |-> "",
   IconUrl |-> "", CorporateUrl |-> "", HeadquartersLocation |-> "",
   SimilarTickers |-> "", PolygonDetailAge |-> 0, FidelityCusip |-> FALSE,
   Updated |-> FALSE, UpdateReason |-> <<>>, LastUpdated |-> 0,
   Source |-> ""]

(***************************************************************************)
(* MergeAsset: the fifteen "if b.F != "" && a.F != b.F" blocks, in the     *)
(* order of the source.                                                    *)
(***************************************************************************)
MergeFields ==
  <<"CIK", "CUSIP", "CompositeFigi", "CorporateUrl", "DelistingDate",
    "Description", "HeadquartersLocation", "ISIN", "IconUrl", "Industry",
    "ListingDate", "Name", "PrimaryExchange", "Sector", "ShareClassFigi">>

\* a plausible slip: the incoming value overwrites even when it is empty
MergeFieldErasing(a, b, f, t) ==
  IF a[f] # b[f]
    THEN [a EXCEPT !["UpdateReason"] = <<f, a[f], b[f]>>,
                   ![f] = b[f],
                   !["Updated"] = TRUE,
                   !["LastUpdated"] = t]
    ELSE a

\* a plausible slip: the change is flagged whenever the incoming value is
\* populated, whether or not it differs
MergeFieldAlwaysFlag(a, b, f, t) ==
  IF b[f] # ""
    THEN [a EXCEPT !["UpdateReason"] = <<f, a[f], b[f]>>,
                   ![f] = b[f],
                   !["Updated"] = TRUE,
                   !["LastUpdated"] = t]
    ELSE a

\* one block of MergeAsset, for field f, at time t
MergeField(a, b, f, t) ==
  IF b[f] # "" /\ a[f] # b[f]
    THEN [a EXCEPT !["UpdateReason"] = <<f, a[f], b[f]>>,
                   ![f] = b[f],
                   !["Updated"] = TRUE,
                   !["LastUpdated"] = t]
    ELSE a

RECURSIVE MergeFrom(_, _, _, _)
MergeFrom(a, b, i, t) ==
  IF i > Len(MergeFields) THEN a
  ELSE MergeFrom(MergeField(a, b, MergeFields[i], t), b, i + 1, t)

\* a plausible slip: the asset type is merged like the other fields
MergeTypeOverwriting(a, b) ==
  IF b.AssetType # "" /\ a.AssetType # b.AssetType
    THEN [a EXCEPT !.AssetType = b.AssetType]
    ELSE a

\* the asset-type block: only an unset type is filled
MergeType(a, b) ==
  IF a.AssetType = "" /\ b.AssetType # ""
    THEN [a EXCEPT !.AssetType = b.AssetType]
    ELSE a

\* a plausible slip: the ticker guard is missing
MergeRecordNoGuard(a, b, t) == MergeFrom(MergeType(a, b), b, 1, t)

\* the value of *a after MergeAsset(a, b) at time t
MergeRecord(a, b, t) ==
  IF a.Ticker # b.Ticker THEN a
  ELSE MergeFrom(MergeType(a, b), b, 1, t)

\* MergeAsset(a, b) on the heap h: a and b are pointers; only *a is written
MergeAsset(h, a, b, t) == [h EXCEPT ![a] = MergeRecord(h[a], h[b], t)]

(***************************************************************************)
(* The earlier revision of MergeAsset (src/common/asset.go): no Updated    *)
(* flag, no reason, the asset type is only compared (and logged), and      *)
(* Source is overwritten by plain inequality.                              *)
(***************************************************************************)
LegacyMergeField(a, b, f, t) ==
  IF b[f] # "" /\ a[f] # b[f]
    THEN [a EXCEPT ![f] = b[f], !["LastUpdated"] = t]
    ELSE a

RECURSIVE LegacyMergeFrom(_, _, _, _)
LegacyMergeFrom(a, b, i, t) ==
  IF i > Len(MergeFields) THEN a
  ELSE LegacyMergeFrom(LegacyMergeField(a, b, MergeFields[i], t), b, i + 1, t)

LegacyMergeSource(a, b, t) ==
  IF a.Source # b.Source
    THEN [a EXCEPT !.Source = b.Source, !.LastUpdated = t]
    ELSE a

LegacyMergeRecord(a, b, t) ==
  IF a.Ticker # b.Ticker THEN a
  ELSE LegacyMergeSource(LegacyMergeFrom(a, b, 1, t), b, t)

LegacyMergeAsset(h, a, b, t) ==
  [h EXCEPT ![a] = LegacyMergeRecord(h[a], h[b], t)]

(***************************************************************************)
(* Lists of assets are sequences of pointers.                              *)
(***************************************************************************)
TickersOf(h, assets) == {h[assets[i]].Ticker : i \in DOMAIN assets}

\* BuildAssetMap: ticker -> pointer; a later entry replaces an earlier one
BuildAssetMap(h, assets) ==
  [tk \in TickersOf(h, assets) |->
     LET last == CHOOSE i \in DOMAIN assets :
                   /\ h[assets[i]].Ticker = tk
                   /\ \A j \in DOMAIN assets :
                        h[assets[j]].Ticker = tk => j <= i
     IN  assets[last]]

\* SubtractAssets: the entries of a whose ticker is not in b
RECURSIVE SubtractFrom(_, _, _, _)
SubtractFrom(h, a, bAssetMap, i) ==
  IF i > Len(a) THEN <<>>
  ELSE IF h[a[i]].Ticker \notin DOMAIN bAssetMap
         THEN <<a[i]>> \o SubtractFrom(h, a, bAssetMap, i + 1)
         ELSE SubtractFrom(h, a, bAssetMap, i + 1)

SubtractAssets(h, a, b) == SubtractFrom(h, a, BuildAssetMap(h, b), 1)

\* RemoveDelistedAssets: the entries with an empty DelistingDate
RECURSIVE RemoveDelistedAssets(_, _)
RemoveDelistedAssets(h, assets) ==
  IF assets = <<>> THEN <<>>
  ELSE IF h[Head(assets)].DelistingDate = ""
         THEN <<Head(assets)>> \o RemoveDelistedAssets(h, Tail(assets))
         ELSE RemoveDelistedAssets(h, Tail(assets))

\* MergeAssetList, first loop ("add items of second to first"), from entry i
\* of second on; acc holds the heap and the lists built so far
RECURSIVE MergeSecondLoop(_, _, _, _, _)
MergeSecondLoop(acc, second, firstAssetMap, i, t) ==
  IF i > Len(second) THEN acc
  ELSE LET asset == second[i]
           tk == acc.heap[asset].Ticker
       IN  IF tk \in DOMAIN firstAssetMap
             THEN MergeSecondLoop(
                    [acc EXCEPT
                       !.heap = MergeAsset(acc.heap, firstAssetMap[tk], asset, t),
                       !.combinedAssets = Append(@, firstAssetMap[tk])],
                    second, firstAssetMap, i + 1, t)
             ELSE MergeSecondLoop(
                    [acc EXCEPT
                       !.secondOnly = Append(@, asset),
                       !.combinedAssets = Append(@, asset)],
                    second, firstAssetMap, i + 1, t)

\* a plausible slip: the first-only records are found but not kept
MergeAssetListDropsFirstOnly(h, first, second, t) ==
  LET acc == MergeSecondLoop(
               [heap |-> h, combinedAssets |-> <<>>, secondOnly |-> <<>>],
               second, BuildAssetMap(h, first), 1, t)
  IN  [heap |-> acc.heap,
       combinedAssets |-> acc.combinedAssets,
       firstOnly |-> SubtractAssets(h, first, second),
       secondOnly |-> acc.secondOnly]

\* MergeAssetList(first, second): the heap after the merges and the three
\* lists returned.  The second loop ("find assets that are only in first")
\* appends to firstOnly and combinedAssets every entry of first whose ticker
\* is not a key of secondAssetMap.
MergeAssetList(h, first, second, t) ==
  LET acc == MergeSecondLoop(
               [heap |-> h, combinedAssets |-> <<>>, secondOnly |-> <<>>],
               second, BuildAssetMap(h, first), 1, t)
      onlyFirst == SubtractAssets(h, first, second)
  IN  [heap |-> acc.heap,
       combinedAssets |-> acc.combinedAssets \o onlyFirst,
       firstOnly |-> onlyFirst,
       secondOnly |-> acc.secondOnly]

\* time.Now().In(nyc).Format("2006-01-02")
DateOf(t) ==
  CASE t <= 1 -> "2022-05-27"
    [] t = 2 -> "2022-05-28"
    [] OTHER -> "2022-05-29"

\* MergeWithCurrent of the earliest revision, first loop ("add all new
\* assets"), from entry i of the downloaded list on
RECURSIVE LegacyAddNew(_, _, _, _, _)
LegacyAddNew(acc, new, assetMapTickerExisting, i, t) ==
  IF i > Len(new) THEN acc
  ELSE LET asset == new[i]
           tk == acc.heap[asset].Ticker
       IN  IF tk \in DOMAIN assetMapTickerExisting
             THEN LegacyAddNew(
                    [heap |-> LegacyMergeAsset(acc.heap,
                                assetMapTickerExisting[tk], asset, t),
                     mergedAssets |-> Append(acc.mergedAssets,
                                             assetMapTickerExisting[tk])],
                    new, assetMapTickerExisting, i + 1, t)
             ELSE LegacyAddNew(
                    [heap |-> [acc.heap EXCEPT ![asset].LastUpdated = t],
                     mergedAssets |-> Append(acc.mergedAssets, asset)],
                    new, assetMapTickerExisting, i + 1, t)

\* MergeWithCurrent of the earliest revision: existingAssets is what
\* ReadFromParquet gave, new the downloaded list.  The delisted records are
\* left out of assetMapTickerExisting; the last loop marks every existing
\* record whose ticker was not downloaded.
LegacyMergeWithCurrent(h, existingAssets, new, t) ==
  LET acc == LegacyAddNew(
               [heap |-> h, mergedAssets |-> <<>>], new,
               BuildAssetMap(h, RemoveDelistedAssets(h, existingAssets)), 1, t)
      gone == SubtractAssets(h, existingAssets, new)
  IN  [heap |-> [p \in DOMAIN h |->
                   IF \E i \in DOMAIN gone : gone[i] = p
                     THEN [acc.heap[p] EXCEPT !.DelistingDate = DateOf(t),
                                              !.LastUpdated = t]
                     ELSE acc.heap[p]],
       mergedAssets |-> acc.mergedAssets \o gone]

\* rootCmd.Run after the merge with the parquet snapshot: the records only
\* in the snapshot are marked delisted, the records only in the download
\* get a fresh LastUpdated and, if they have none, a listing date
MarkParquetDiff(h, firstOnlyL, secondOnlyL, t) ==
  [p \in DOMAIN h |->
     IF \E i \in DOMAIN firstOnlyL : firstOnlyL[i] = p
       THEN [h[p] EXCEPT !.DelistingDate = DateOf(t)]
     ELSE IF \E i \in DOMAIN secondOnlyL : secondOnlyL[i] = p
       THEN [h[p] EXCEPT !.LastUpdated = t,
                         !.ListingDate = IF @ = "" THEN DateOf(t) ELSE @]
     ELSE h[p]]

(***************************************************************************)
(* DeduplicateCompositeFigi                                                *)
(***************************************************************************)
\* time.Parse("2006-01-02", s): whether s parses, and the day it denotes
\* (an ordinal that orders the sample dates as the calendar does)
ParseDate(s) ==
  CASE s = "2019-01-01" -> [ok |-> TRUE, day |-> 20190101]
    [] s = "2020-01-01" -> [ok |-> TRUE, day |-> 20200101]
    [] s = "2021-01-01" -> [ok |-> TRUE, day |-> 20210101]
    [] OTHER -> [ok |-> FALSE, day |-> 0]

\* a plausible slip: the common-stock stage is missing
DedupLessNoCommonStock(a, b) ==
  IF a.AssetType = CEF /\ b.AssetType # CEF THEN TRUE
  ELSE IF b.AssetType = CEF /\ a.AssetType # CEF THEN FALSE
  ELSE IF a.ListingDate # "" /\ b.ListingDate # ""
    THEN IF ~ParseDate(a.ListingDate).ok THEN FALSE
         ELSE IF ~ParseDate(b.ListingDate).ok THEN FALSE
         ELSE ParseDate(a.ListingDate).day > ParseDate(b.ListingDate).day
  ELSE FALSE

\* the comparator handed to sort.SliceStable: a sorts before b
DedupLess(a, b) ==
  IF a.AssetType = CommonStock /\ b.AssetType # CommonStock THEN TRUE
  ELSE IF b.AssetType = CommonStock /\ a.AssetType # CommonStock THEN FALSE
  ELSE IF a.AssetType = CEF /\ b.AssetType # CEF THEN TRUE
  ELSE IF b.AssetType = CEF /\ a.AssetType # CEF THEN FALSE
  ELSE IF a.ListingDate # "" /\ b.ListingDate # ""
    THEN IF ~ParseDate(a.ListingDate).ok THEN FALSE
         ELSE IF ~ParseDate(b.ListingDate).ok THEN FALSE
         ELSE ParseDate(a.ListingDate).day > ParseDate(b.ListingDate).day
  ELSE FALSE

\* sort's insertion step: entry j moves down while it sorts before its
\* predecessor
RECURSIVE InsertDown(_, _, _)
InsertDown(h, v, j) ==
  IF j > 1 /\ DedupLess(h[v[j]], h[v[j - 1]])
    THEN InsertDown(h, [v EXCEPT ![j] = v[j - 1], ![j - 1] = v[j]], j - 1)
    ELSE v

RECURSIVE InsertionSort(_, _, _)
InsertionSort(h, v, i) ==
  IF i > Len(v) THEN v ELSE InsertionSort(h, InsertDown(h, v, i), i + 1)

\* a plausible slip: the group is not sorted, its first record is kept
SliceUnsorted(h, v) == v

\* sort.SliceStable(v, less): for fewer than 20 entries the library sorts by
\* insertion
SliceStable(h, v) == InsertionSort(h, v, 2)

\* compositeMap[k]: the entries with composite figi k, in input order
RECURSIVE FigiGroup(_, _, _)
FigiGroup(h, assets, k) ==
  IF assets = <<>> THEN <<>>
  ELSE IF h[Head(assets)].CompositeFigi = k
         THEN <<Head(assets)>> \o FigiGroup(h, Tail(assets), k)
         ELSE FigiGroup(h, Tail(assets), k)

FigiKeys(h, assets) == {h[assets[i]].CompositeFigi : i \in DOMAIN assets}

\* the record chosen to represent the group of key k
Selected(h, assets, k) == SliceStable(h, FigiGroup(h, assets, k))[1]

\* the orders in which a range over the map may visit its keys
KeyOrders(K) ==
  {o \in [1 .. Cardinality(K) -> K] : \A k \in K : \E i \in DOMAIN o : o[i] = k}

\* the first range over compositeMap: the groups of one record
RECURSIVE DedupSingles(_, _, _)
DedupSingles(h, assets, order) ==
  IF order = <<>> THEN <<>>
  ELSE LET v == FigiGroup(h, assets, Head(order))
       IN  (IF Len(v) = 1 THEN <<v[1]>> ELSE <<>>)
             \o DedupSingles(h, assets, Tail(order))

\* the second range over compositeMap: the groups of several records
RECURSIVE DedupFamilies(_, _, _)
DedupFamilies(h, assets, order) ==
  IF order = <<>> THEN <<>>
  ELSE LET v == FigiGroup(h, assets, Head(order))
       IN  (IF Len(v) > 1 THEN <<Selected(h, assets, Head(order))>> ELSE <<>>)
             \o DedupFamilies(h, assets, Tail(order))

\* DeduplicateCompositeFigi(assets), the map being visited in the given
\* order of its keys
DeduplicateCompositeFigi(h, assets, order) ==
  DedupSingles(h, assets, order) \o DedupFamilies(h, assets, order)

(***************************************************************************)
(* The filters of the pipeline                                             *)
(***************************************************************************)
\* the older revision of CleanAssets, which has no unknown asset type: the
\* records with a composite figi
LegacyCleanAssets(h, assets) ==
  SelectSeq(assets, LAMBDA p : h[p].CompositeFigi # "")

\* a plausible slip: only the asset type is looked at
CleanAssetsTypeOnly(h, assets) ==
  SelectSeq(assets, LAMBDA p : h[p].AssetType # UnknownAsset)

\* CleanAssets: the records with a composite figi and a known asset type
CleanAssets(h, assets) ==
  SelectSeq(assets,
            LAMBDA p : h[p].CompositeFigi # "" /\ h[p].AssetType # UnknownAsset)

\* strings.ToUpper on the tickers that occur
ToUpper(s) ==
  CASE s = "Aaa" -> "AAA"
    [] OTHER -> s

\* FilterMixedCase: the records whose ticker is all upper case
FilterMixedCase(h, assets) ==
  SelectSeq(assets, LAMBDA p : ToUpper(h[p].Ticker) = h[p].Ticker)

\* RemoveAssets: the records of assets that match no record of remove on
\* ticker and composite figi
RemoveAssets(h, assets, remove) ==
  SelectSeq(assets,
            LAMBDA p : ~\E i \in DOMAIN remove :
                          /\ h[p].Ticker = h[remove[i]].Ticker
                          /\ h[p].CompositeFigi = h[remove[i]].CompositeFigi)

\* strings.TrimSpace on the values that occur
TrimSpace(s) ==
  CASE s = " p " -> "p"
    [] s = " q " -> "q"
    [] OTHER -> s

TrimFields ==
  {"Name", "Description", "CIK", "CUSIP", "Industry", "Sector", "ISIN"}

\* TrimWhiteSpace: the listed records have their free-text fields trimmed
TrimWhiteSpace(h, assets) ==
  [p \in DOMAIN h |->
     IF \E i \in DOMAIN assets : assets[i] = p
       THEN [f \in AssetFields |->
               IF f \in TrimFields THEN TrimSpace(h[p][f]) ELSE h[p][f]]
       ELSE h[p]]

(***************************************************************************)
(* The parquet snapshot                                                    *)
(***************************************************************************)
\* the fields ReadAssetsFromParquet copies out of a stored row
ParquetReadFields ==
  AssetFields \ {"Icon", "Updated", "UpdateReason", "Source"}

\* the fields of the struct that carry a parquet tag
ParquetTagFields == AssetFields \ {"Icon", "Updated", "UpdateReason"}

\* ReadAssetsFromParquet: one fresh record per stored row
ReadAssetsFromParquet(file) ==
  [i \in DOMAIN file |->
     [f \in AssetFields |->
        IF f \in ParquetReadFields THEN file[i][f] ELSE EmptyAsset[f]]]

\* SaveToParquet: the rows written, the delisted records being skipped
SaveToParquet(h, records) ==
  LET kept == SelectSeq(records, LAMBDA p : h[p].DelistingDate = "")
  IN  [i \in DOMAIN kept |->
         [f \in AssetFields |->
            IF f \in ParquetTagFields THEN h[kept[i]][f] ELSE EmptyAsset[f]]]

(***************************************************************************)
(* The assets table.  A table is a function from the key of a row to the   *)
(* row; assets_pkey is taken to be the ticker column.                      *)
(***************************************************************************)
SyntheticHistory == "Synthetic History"

\* the order in which a query returns the rows
RowOrder == <<"AAA", "BBB", "CCC", "SYN">>

\* SELECT ... WHERE active='t' AND asset_type != 'Synthetic History'
RECURSIVE ActiveRowsFrom(_, _)
ActiveRowsFrom(d, i) ==
  IF i > Len(RowOrder) THEN <<>>
  ELSE (IF /\ RowOrder[i] \in DOMAIN d
           /\ d[RowOrder[i]].active
           /\ d[RowOrder[i]].asset_type # SyntheticHistory
          THEN <<RowOrder[i]>> ELSE <<>>) \o ActiveRowsFrom(d, i + 1)

\* ActiveAssetsFromDatabase: one fresh record per selected row; nothing when
\* the connection fails
ActiveAssetsFromDatabase(d, connected) ==
  IF ~connected THEN <<>>
  ELSE LET keys == ActiveRowsFrom(d, 1)
       IN  [i \in DOMAIN keys |->
              [EmptyAsset EXCEPT !.Ticker = keys[i],
                                 !.AssetType = d[keys[i]].asset_type,
                                 !.CompositeFigi = d[keys[i]].composite_figi]]

\* UPDATE assets SET active=False, updated=False, new=False
ResetFlags(d) ==
  [k \in DOMAIN d |-> [d[k] EXCEPT !.active = FALSE, !.updated = FALSE]]

\* the source SaveToDatabase gives a record that has none
DefaultSource(a) ==
  IF a.Source # "" THEN a.Source
  ELSE IF a.AssetType = MutualFund THEN "api.tiingo.com" ELSE "api.polygon.io"

\* INSERT ... ON CONFLICT ON CONSTRAINT assets_pkey DO UPDATE SET ...
\* (asset_type is written by the insert only)
Upsert(d, a) ==
  LET row == [active |-> a.DelistingDate = "",
              asset_type |-> IF a.Ticker \in DOMAIN d
                               THEN d[a.Ticker].asset_type ELSE a.AssetType,
              composite_figi |-> a.CompositeFigi,
              delisted_utc |-> a.DelistingDate,
              updated |-> a.Updated]
  IN  [k \in DOMAIN d \cup {a.Ticker} |-> IF k = a.Ticker THEN row ELSE d[k]]

\* the upserts of SaveToDatabase, in list order
RECURSIVE UpsertAll(_, _, _, _)
UpsertAll(d, h, assets, i) ==
  IF i > Len(assets) THEN d
  ELSE UpsertAll(Upsert(d, h[assets[i]]), h, assets, i + 1)

\* the records after SaveToDatabase has given the first n of the list their
\* default source
FillSource(h, assets, n) ==
  [p \in DOMAIN h |->
     IF \E i \in 1 .. n : assets[i] = p
       THEN [h[p] EXCEPT !.Source = DefaultSource(h[p])]
       ELSE h[p]]

\* the number of records SaveToDatabase has got to when it fails at failAt
Reached(assets, failAt) ==
  IF failAt > Len(assets) THEN Len(assets) ELSE failAt

\* a plausible slip: no transaction, the statements executed before the
\* failure stay in the table
SaveToDatabaseNoRollback(d, h, assets, failAt) ==
  IF failAt = 0
    THEN [db |-> UpsertAll(ResetFlags(d), FillSource(h, assets, Len(assets)),
                           assets, 1),
          heap |-> FillSource(h, assets, Len(assets)),
          err |-> FALSE]
  ELSE IF failAt = -1
    THEN [db |-> d, heap |-> h, err |-> TRUE]
  ELSE LET n == Reached(assets, failAt)
           filled == FillSource(h, assets, n)
       IN  [db |-> UpsertAll(ResetFlags(d), filled,
                             SubSeq(assets, 1, failAt - 1), 1),
            heap |-> filled,
            err |-> TRUE]

\* SaveToDatabase(assets): failAt = 0 when it commits, -1 when the
\* connection, the transaction or the reset fails, i when the upsert of the
\* i-th record fails and Len(assets) + 1 when the commit fails; a failure
\* leaves the table as it was (tx.Rollback, or the commit not done)
SaveToDatabase(d, h, assets, failAt) ==
  IF failAt = 0
    THEN [db |-> UpsertAll(ResetFlags(d), FillSource(h, assets, Len(assets)),
                           assets, 1),
          heap |-> FillSource(h, assets, Len(assets)),
          err |-> FALSE]
  ELSE IF failAt = -1
    THEN [db |-> d, heap |-> h, err |-> TRUE]
  ELSE [db |-> d,
        heap |-> FillSource(h, assets, Reached(assets, failAt)),
        err |-> TRUE]

(***************************************************************************)
(* figi.Enrich: the records without a composite figi or with an unknown    *)
(* type, and not delisted, are looked up; answers maps the tickers the     *)
(* mapping service knows to what it answers for them.                      *)
(***************************************************************************)
\* the composite figi the mapping service answers for a ticker; CCC is a
\* second ticker of the security that also trades as AAA
FigiOf(tk) ==
  CASE tk = "AAA" -> "BBG001"
    [] tk = "BBB" -> "BBG002"
    [] tk = "CCC" -> "BBG001"
    [] tk = "Aaa" -> "BBG004"
    [] OTHER -> "BBG009"

NeedsFigi(a) ==
  (a.CompositeFigi = "" \/ a.AssetType = UnknownAsset) /\ a.DelistingDate = ""

\* what the mapping service answers for a ticker held as a common stock
OpenFigiAssetOf(tk) ==
  [Ticker |-> tk, CompositeFIGI |-> FigiOf(tk), ShareClassFIGI |-> "BBG00S",
   SecurityType |-> "Common Stock", SecurityType2 |-> "Common Stock"]

\* the number of queries of one mapping request
BatchSize == 100

\* a plausible slip: the request is sent once the batch is over its size
BatchFullLate(query) == Len(query) > BatchSize

\* if len(query) == 100
BatchFull(query) == Len(query) = BatchSize

\* the range loop of LookupFigi from position i on and the request that
\* follows it: sent is the sequence of the queries handed to mapFigis, each
\* query being the sequence of its IdValues
RECURSIVE LookupLoop(_, _, _, _, _)
LookupLoop(h, assets, i, query, sent) ==
  IF i > Len(assets)
    THEN IF Len(query) > 0 THEN Append(sent, query) ELSE sent
    ELSE LET q == Append(query, h[assets[i]].Ticker)
         IN  IF BatchFull(q)
               THEN LookupLoop(h, assets, i + 1, <<>>, Append(sent, q))
               ELSE LookupLoop(h, assets, i + 1, q, sent)

\* mapFigis(query): the tickers of the figiAssets in the response, answers
\* being what the service knows (nothing when the call fails)
MapFigis(query, answers) ==
  {query[i] : i \in DOMAIN query} \cap DOMAIN answers

\* LookupFigi(assets, rateLimiter): the requests sent and the map returned
LookupFigi(h, assets, answers) ==
  LET sent == LookupLoop(h, assets, 1, <<>>, <<>>)
      tks == UNION {MapFigis(sent[r], answers) : r \in DOMAIN sent}
  IN  [requests |-> sent, result |-> [tk \in tks |-> answers[tk]]]

\* the inner switch of figi.Enrich, on SecurityType
FundType(current, figiAsset) ==
  CASE figiAsset.SecurityType = "ETP" -> ETF
    [] figiAsset.SecurityType = "Open-End Fund" -> MutualFund
    [] figiAsset.SecurityType = "Closed-End Fund" -> CEF
    [] OTHER -> current

\* the switch of figi.Enrich on SecurityType2 for a record of unknown
\* type; in the case "Mutual Fund" the assignment that follows the inner
\* switch replaces whatever the inner switch has assigned
FigiAssetType(current, figiAsset) ==
  CASE figiAsset.SecurityType2 = "Partnership Shares" -> CommonStock
    [] figiAsset.SecurityType2 = "Depositary Receipt" -> ADRC
    [] figiAsset.SecurityType2 = "Common Stock" -> CommonStock
    [] figiAsset.SecurityType2 = "Mutual Fund" ->
         LET inner == FundType(current, figiAsset) IN MutualFund
    [] OTHER -> current

\* figi.Enrich(assets) at time t, the service answering with answers
FigiEnrich(h, assets, answers, t) ==
  LET emptyFigis == SelectSeq(assets, LAMBDA p : NeedsFigi(h[p]))
      figiMap == LookupFigi(h, emptyFigis, answers).result
  IN  [p \in DOMAIN h |->
         IF /\ \E i \in DOMAIN emptyFigis : emptyFigis[i] = p
            /\ h[p].Ticker \in DOMAIN figiMap
           THEN LET assetFigi == figiMap[h[p].Ticker]
                IN  [h[p] EXCEPT
                       !.CompositeFigi = assetFigi.CompositeFIGI,
                       !.ShareClassFigi = assetFigi.ShareClassFIGI,
                       !.AssetType = IF @ = UnknownAsset
                                       THEN FigiAssetType(@, assetFigi)
                                       ELSE @,
                       !.LastUpdated = t]
           ELSE h[p]]

(***************************************************************************)
(* The safety valve of the root command                                    *)
(***************************************************************************)
\* the number of entries of the list that carry a delisting date
RECURSIVE CountDelisted(_, _)
CountDelisted(h, assets) ==
  IF assets = <<>> THEN 0
  ELSE (IF h[Head(assets)].DelistingDate # "" THEN 1 ELSE 0)
         + CountDelisted(h, Tail(assets))

\* a plausible slip: the run is stopped at the threshold already
ValveTripsAtThreshold(numRemoved, maxRemovedCount) ==
  numRemoved >= maxRemovedCount

\* if numRemoved > viper.GetInt("max_removed_count")
ValveTrips(numRemoved, maxRemovedCount) == numRemoved > maxRemovedCount

\* the loop that marks the assets missing from the reconciled list
MarkRemoved(h, removed, t) ==
  [p \in DOMAIN h |->
     IF \E i \in DOMAIN removed : removed[i] = p
       THEN [h[p] EXCEPT !.DelistingDate = DateOf(t),
                         !.LastUpdated = t,
                         !.Updated = TRUE,
                         !.UpdateReason = <<"asset delisted">>]
       ELSE h[p]]

(***************************************************************************)
(* yfinance: the meta-data of Yahoo! Finance                               *)
(***************************************************************************)
\* the three conditions under which Enrich looks a record up
NeedsStock(a) ==
  /\ a.DelistingDate = "" /\ a.AssetType = CommonStock
  /\ (a.Industry = "" \/ a.Sector = "" \/ a.Description = "")
NeedsFund(a) ==
  a.DelistingDate = "" /\ a.AssetType = MutualFund /\ a.Name = ""
NeedsETF(a) ==
  a.DelistingDate = "" /\ a.AssetType = ETF /\ a.Description = ""

\* the number of goroutines one iteration of the loop starts for record a
Lookups(a) ==
  (IF NeedsStock(a) THEN 1 ELSE 0) + (IF NeedsFund(a) THEN 1 ELSE 0)
    + (IF NeedsETF(a) THEN 1 ELSE 0)

RECURSIVE NumAssetsNeedingUpdate(_, _)
NumAssetsNeedingUpdate(h, assets) ==
  IF assets = <<>> THEN 0
  ELSE Lookups(h[Head(assets)]) + NumAssetsNeedingUpdate(h, Tail(assets))

\* the answers of the service: none (an error or a bad status), or one
\* result with an asset profile and a price
YahooResponses ==
  {[ok |-> FALSE, Summary |-> "", Industry |-> "", Sector |-> "",
    Website |-> "", Name |-> ""],
   [ok |-> TRUE, Summary |-> "d2", Industry |-> "i2", Sector |-> "s2",
    Website |-> "w2", Name |-> "n2"]}

\* one "if asset.F != value" block of Download
SetIfDiffers(a, f, v, t) ==
  IF a[f] # v THEN [a EXCEPT ![f] = v, !["LastUpdated"] = t] ELSE a

\* the record after Download(asset) got the answer resp at time t
Downloaded(a, resp, t) ==
  IF ~resp.ok THEN a
  ELSE LET a1 == SetIfDiffers(a, "Description", resp.Summary, t)
           a2 == SetIfDiffers(a1, "Industry", resp.Industry, t)
           a3 == SetIfDiffers(a2, "Sector", resp.Sector, t)
           a4 == SetIfDiffers(a3, "CorporateUrl", resp.Website, t)
       IN  IF a4.Name = ""
             THEN [a4 EXCEPT !.Name = resp.Name, !.LastUpdated = t]
             ELSE a4

(***************************************************************************)
(* State                                                                   *)
(***************************************************************************)
VARIABLES
  heap,   \* the records: heap[p] is the Asset behind pointer p
  orig,   \* the heap as first constructed
  prev,   \* the heap before the latest operation
  now,    \* time.Now().Unix()
  pc,     \* position of the scenario or of the run
  pa,     \* MergeAsset: the pointer a
  pb,     \* MergeAsset: the pointer b
  first,  \* MergeAssetList: the list first
  second, \* MergeAssetList: the list second
  combinedAssets,  \* MergeAssetList: result
  firstOnly,       \* MergeAssetList: result
  secondOnly,      \* MergeAssetList: result
  assets,          \* DeduplicateCompositeFigi: the input list
  permuted,        \* the same records in another order
  dedupAssets,     \* DeduplicateCompositeFigi(assets)
  dedupPermuted,   \* DeduplicateCompositeFigi(permuted)
  cfg,             \* the configuration (viper)
  bucket,          \* the snapshot held in the backblaze bucket
  parquet,         \* the rows of the local parquet file
  db,              \* the assets table
  dbPrior,         \* the assets table as it was when the run started
  polygonAssets,   \* rootCmd.Run: local variable
  polygonErr,      \* rootCmd.Run: whether polygon.FetchAssets gave an error
  tiingoAssets,    \* rootCmd.Run: local variable
  mergedAssets,    \* rootCmd.Run: local variable
  assetsDb,        \* rootCmd.Run: local variable
  removedAssets,   \* rootCmd.Run: local variable
  numRemoved,      \* rootCmd.Run: local variable; -1 before it is computed
  exitCode,        \* the code handed to os.Exit; "" while none was
  persisted,       \* the persistence calls that have completed
  clean,           \* CleanAssets(assets)
  legacyClean,     \* CleanAssets(assets) of the older revision
  max,             \* yfinance.Enrich: the limit
  idx,             \* the position of the range loop over assets
  callCount,       \* yfinance.Enrich: local variable
  count,           \* yfinance.Enrich: the messages held by the channel
  started,         \* the records of the Download goroutines, as started
  running,         \* the goroutines (positions of started) still running
  figiMap,         \* figi.Enrich: the map LookupFigi returned
  requests,        \* LookupFigi: the queries handed to mapFigis
  query            \* LookupFigi: local variable

mergeVars == <<pa, pb>>
listVars == <<first, second, combinedAssets, firstOnly, secondOnly>>
dedupVars == <<assets, permuted, dedupAssets, dedupPermuted>>
runVars ==
  <<cfg, bucket, parquet, db, dbPrior, polygonAssets, polygonErr, tiingoAssets,
    mergedAssets, assetsDb, removedAssets, numRemoved, exitCode, persisted>>
yahooVars == <<max, idx, callCount, count, started, running>>
figiVars == <<figiMap, requests, query>>
auxVars == <<clean, legacyClean, yahooVars, figiVars>>
vars ==
  <<heap, orig, prev, now, pc, mergeVars, listVars, dedupVars, runVars,
    auxVars>>

\* no run of the root command is under way
RunIdle ==
  /\ cfg = <<>>
  /\ bucket = <<>>
  /\ parquet = <<>>
  /\ db = <<>>
  /\ dbPrior = <<>>
  /\ polygonAssets = <<>>
  /\ polygonErr = FALSE
  /\ tiingoAssets = <<>>
  /\ mergedAssets = <<>>
  /\ assetsDb = <<>>
  /\ removedAssets = <<>>
  /\ numRemoved = -1
  /\ exitCode = ""
  /\ persisted = {}

YahooIdle ==
  /\ max = 0
  /\ idx = 0
  /\ callCount = 0
  /\ count = 0
  /\ started = <<>>
  /\ running = {}

FigiIdle ==
  /\ figiMap = <<>>
  /\ requests = <<>>
  /\ query = <<>>

AuxIdle ==
  /\ clean = <<>>
  /\ legacyClean = <<>>
  /\ YahooIdle
  /\ FigiIdle

DedupIdle ==
  /\ assets = <<>>
  /\ permuted = <<>>
  /\ dedupAssets = <<>>
  /\ dedupPermuted = <<>>

ListIdle ==
  /\ first = <<>>
  /\ second = <<>>
  /\ combinedAssets = <<>>
  /\ firstOnly = <<>>
  /\ secondOnly = <<>>

(***************************************************************************)
(* Inputs of the field merge: two records that vary on at most MaxVaried   *)
(* fields; every other field is empty in both.                             *)
(***************************************************************************)
VaryFields ==
  {"CIK", "CUSIP", "CompositeFigi", "CorporateUrl", "DelistingDate",
   "Description", "HeadquartersLocation", "ISIN", "IconUrl", "Industry",
   "ListingDate", "Name", "PrimaryExchange", "Sector", "ShareClassFigi",
   "AssetType", "Source"}

\* the i-th sample value of field f; 0 is the empty string
FieldValue(f, i) ==
  IF i = 0 THEN ""
  ELSE CASE f = "AssetType" -> IF i = 1 THEN CommonStock ELSE MutualFund
         [] f \in {"ListingDate", "DelistingDate"} ->
              IF i = 1 THEN "2019-01-01" ELSE "2020-01-01"
         [] f = "Source" -> IF i = 1 THEN "api.polygon.io" ELSE "api.tiingo.com"
         [] OTHER -> IF i = 1 THEN "p" ELSE "q"

\* the record with ticker tk whose fields in DOMAIN g hold the chosen samples
SampleAsset(tk, g, upd, lu) ==
  [f \in AssetFields |->
     IF f = "Ticker" THEN tk
     ELSE IF f = "Updated" THEN upd
     ELSE IF f = "LastUpdated" THEN lu
     ELSE IF f \in DOMAIN g THEN FieldValue(f, g[f])
     ELSE EmptyAsset[f]]

VariedSets == {S \in SUBSET VaryFields : Cardinality(S) <= MaxVaried}

\* pairs <<ga, gb>> of sample choices: a few fields varied freely, or every
\* field holding the same sample index
MergeSamples ==
  UNION {[S -> 0 .. 1] \X [S -> 0 .. 2] : S \in VariedSets}
    \cup {<<[f \in VaryFields |-> i], [f \in VaryFields |-> j]>> :
            i \in 0 .. 1, j \in 0 .. 2}

MergeInit ==
  /\ \E g \in MergeSamples, upd \in BOOLEAN :
       \/ /\ heap = <<SampleAsset("AAA", g[1], upd, 1)>>
          /\ pa = 1
          /\ pb = 1
       \/ /\ \E tk \in {"AAA", "BBB"} :
               heap = <<SampleAsset("AAA", g[1], upd, 1),
                        SampleAsset(tk, g[2], upd, 1)>>
          /\ pa = 1
          /\ pb = 2
  /\ orig = heap
  /\ prev = heap
  /\ now = 2
  /\ pc = "merge0"
  /\ ListIdle
  /\ DedupIdle
  /\ RunIdle
  /\ AuxIdle

\* MergeAsset(a, b), current revision; it may be called a second time
CallMergeAsset ==
  /\ pc \in {"merge0", "merge1"}
  /\ prev' = heap
  /\ heap' = MergeAsset(heap, pa, pb, now)
  /\ pc' = IF pc = "merge0" THEN "merge1" ELSE "merge2"
  /\ UNCHANGED <<orig, now, pa, pb, listVars, dedupVars, runVars,
               auxVars>>

\* MergeAsset(a, b), earlier revision
CallLegacyMergeAsset ==
  /\ pc \in {"merge0", "legacy1"}
  /\ prev' = heap
  /\ heap' = LegacyMergeAsset(heap, pa, pb, now)
  /\ pc' = IF pc = "merge0" THEN "legacy1" ELSE "legacy2"
  /\ UNCHANGED <<orig, now, pa, pb, listVars, dedupVars, runVars,
               auxVars>>

MergeNext == CallMergeAsset \/ CallLegacyMergeAsset

SpecMerge == MergeInit /\ [][MergeNext]_vars

(***************************************************************************)
(* Inputs of the list merge: two lists of at most MaxList records each;    *)
(* a ticker may occur more than once in a list.                            *)
(***************************************************************************)
ListTickers == {"AAA", "BBB", "CCC"}

\* <<ticker, Name sample, DelistingDate sample>>: a ticker under two names,
\* a record without a name, a delisted record
ListSamples ==
  {<<"AAA", 1, 0>>, <<"AAA", 2, 0>>, <<"AAA", 1, 1>>,
   <<"BBB", 1, 0>>, <<"BBB", 0, 0>>, <<"CCC", 2, 0>>}

ListAsset(x) ==
  [EmptyAsset EXCEPT !.Ticker = x[1],
                     !.Name = FieldValue("Name", x[2]),
                     !.DelistingDate = FieldValue("DelistingDate", x[3]),
                     !.LastUpdated = 1]

SeqsUpTo(S, n) == UNION {[1 .. k -> S] : k \in 0 .. n}

ListInit ==
  /\ \E fs \in SeqsUpTo(ListSamples, MaxList),
        ss \in SeqsUpTo(ListSamples, MaxList) :
       /\ heap = [i \in 1 .. Len(fs) |-> ListAsset(fs[i])]
                   \o [i \in 1 .. Len(ss) |-> ListAsset(ss[i])]
       /\ first = [i \in 1 .. Len(fs) |-> i]
       /\ second = [i \in 1 .. Len(ss) |-> Len(fs) + i]
  /\ orig = heap
  /\ prev = heap
  /\ now = 2
  /\ pc = "list0"
  /\ pa = 0
  /\ pb = 0
  /\ combinedAssets = <<>>
  /\ firstOnly = <<>>
  /\ secondOnly = <<>>
  /\ DedupIdle
  /\ RunIdle
  /\ AuxIdle

\* combinedAssets, firstOnly, secondOnly = MergeAssetList(first, second)
CallMergeAssetList ==
  /\ pc = "list0"
  /\ LET r == MergeAssetList(heap, first, second, now)
     IN  /\ heap' = r.heap
         /\ combinedAssets' = r.combinedAssets
         /\ firstOnly' = r.firstOnly
         /\ secondOnly' = r.secondOnly
  /\ prev' = heap
  /\ pc' = "list1"
  /\ UNCHANGED <<orig, now, mergeVars, first, second, dedupVars, runVars,
               auxVars>>

\* the marking loops of rootCmd.Run that follow the merge with the snapshot
CallMarkParquetDiff ==
  /\ pc = "list1"
  /\ prev' = heap
  /\ heap' = MarkParquetDiff(heap, firstOnly, secondOnly, now)
  /\ pc' = "list2"
  /\ UNCHANGED <<orig, now, mergeVars, listVars, dedupVars, runVars,
               auxVars>>

\* MergeWithCurrent(assets) of the earliest revision, first being the
\* records of the parquet file and second the downloaded list
CallLegacyMergeWithCurrent ==
  /\ pc = "list0"
  /\ LET r == LegacyMergeWithCurrent(heap, first, second, now)
     IN  /\ heap' = r.heap
         /\ combinedAssets' = r.mergedAssets
  /\ prev' = heap
  /\ pc' = "legacyList1"
  /\ UNCHANGED <<orig, now, mergeVars, first, second, firstOnly, secondOnly,
                 dedupVars, runVars, auxVars>>

ListNext ==
  \/ CallMergeAssetList
  \/ CallMarkParquetDiff
  \/ CallLegacyMergeWithCurrent

SpecList == ListInit /\ [][ListNext]_vars

(***************************************************************************)
(* Inputs of the de-duplication: a list of at most MaxDedup records with   *)
(* distinct tickers, and a permutation of it.                              *)
(***************************************************************************)
\* <<composite figi, asset type, listing date>>
DedupSamples ==
  {<<"BBG000", MutualFund, "2020-01-01">>,
   <<"BBG000", CommonStock, "2019-01-01">>,
   <<"BBG000", CEF, "2021-01-01">>,
   <<"BBG000", MutualFund, "2021-01-01">>,
   <<"BBG000", MutualFund, "">>,
   <<"BBG000", MutualFund, "01/02/2020">>,
   <<"", MutualFund, "2020-01-01">>}

DedupTicker(i) ==
  CASE i = 1 -> "AAA" [] i = 2 -> "BBB" [] i = 3 -> "CCC" [] i = 4 -> "DDD"
    [] OTHER -> "EEE"

DedupAsset(i, x) ==
  [EmptyAsset EXCEPT !.Ticker = DedupTicker(i),
                     !.CompositeFigi = x[1],
                     !.AssetType = x[2],
                     !.ListingDate = x[3]]

DedupInit ==
  /\ \E xs \in SeqsUpTo(DedupSamples, MaxDedup) :
       /\ heap = [i \in 1 .. Len(xs) |-> DedupAsset(i, xs[i])]
       /\ assets = [i \in 1 .. Len(xs) |-> i]
       /\ permuted \in KeyOrders(1 .. Len(xs))
  /\ orig = heap
  /\ prev = <<>>
  /\ now = 2
  /\ pc = "dedup0"
  /\ pa = 0
  /\ pb = 0
  /\ ListIdle
  /\ dedupAssets = <<>>
  /\ dedupPermuted = <<>>
  /\ RunIdle
  /\ AuxIdle

\* DeduplicateCompositeFigi on the list and on its permutation
CallDeduplicate ==
  /\ pc = "dedup0"
  /\ \E o1, o2 \in KeyOrders(FigiKeys(heap, assets)) :
       /\ dedupAssets' = DeduplicateCompositeFigi(heap, assets, o1)
       /\ dedupPermuted' = DeduplicateCompositeFigi(heap, permuted, o2)
  /\ pc' = "dedup1"
  /\ UNCHANGED <<heap, orig, prev, now, mergeVars, listVars, assets, permuted,
               runVars, auxVars>>

DedupNext == CallDeduplicate

SpecDedup == DedupInit /\ [][DedupNext]_vars

(***************************************************************************)
(* Inputs of CleanAssets: a list of at most MaxClean records.              *)
(***************************************************************************)
MaxClean == 3

\* <<composite figi, asset type, name, delisting date>>
CleanSamples ==
  {<<"", CommonStock, "n", "">>,
   <<"", UnknownAsset, "", "">>,
   <<"BBG001", UnknownAsset, "n", "">>,
   <<"BBG001", CommonStock, "", "">>,
   <<"BBG002", ETF, "n", "2020-01-01">>}

CleanAsset(i, x) ==
  [EmptyAsset EXCEPT !.Ticker = DedupTicker(i),
                     !.CompositeFigi = x[1],
                     !.AssetType = x[2],
                     !.Name = x[3],
                     !.DelistingDate = x[4]]

CleanInit ==
  /\ \E xs \in SeqsUpTo(CleanSamples, MaxClean) :
       /\ heap = [i \in 1 .. Len(xs) |-> CleanAsset(i, xs[i])]
       /\ assets = [i \in 1 .. Len(xs) |-> i]
  /\ orig = heap
  /\ prev = <<>>
  /\ now = 2
  /\ pc = "clean0"
  /\ pa = 0
  /\ pb = 0
  /\ ListIdle
  /\ permuted = <<>>
  /\ dedupAssets = <<>>
  /\ dedupPermuted = <<>>
  /\ RunIdle
  /\ AuxIdle

CallCleanAssets ==
  /\ pc = "clean0"
  /\ clean' = CleanAssets(heap, assets)
  /\ pc' = "clean1"
  /\ UNCHANGED <<heap, orig, prev, now, mergeVars, listVars, dedupVars,
                 runVars, legacyClean, yahooVars, figiVars>>

CallLegacyCleanAssets ==
  /\ pc = "clean0"
  /\ legacyClean' = LegacyCleanAssets(heap, assets)
  /\ pc' = "legacyClean1"
  /\ UNCHANGED <<heap, orig, prev, now, mergeVars, listVars, dedupVars,
                 runVars, clean, yahooVars, figiVars>>

SpecClean ==
  CleanInit /\ [][CallCleanAssets \/ CallLegacyCleanAssets]_vars

(***************************************************************************)
(* yfinance.Enrich(assets, max) on a list of at most MaxYahoo records: the *)
(* range loop, the Download goroutines and the wait for their messages.    *)
(***************************************************************************)
MaxYahoo == 3
MaxLimit == 2

\* <<asset type, description, name, delisting date>>
YahooSamples ==
  {<<CommonStock, "", "n", "">>,
   <<MutualFund, "", "", "">>,
   <<ETF, "d", "n", "">>,
   <<ETF, "", "n", "2020-01-01">>}

YahooAsset(i, x) ==
  [EmptyAsset EXCEPT !.Ticker = DedupTicker(i),
                     !.AssetType = x[1],
                     !.Description = x[2],
                     !.Name = x[3],
                     !.DelistingDate = x[4]]

\* the lists over n records: each record once, or the first record once
\* more at the end, as MergeAssetList returns it when the incoming list
\* repeats a ticker of the first list
YahooLists(n) ==
  {[i \in 1 .. n |-> i]}
    \cup (IF n >= 1 THEN {[i \in 1 .. n + 1 |-> IF i <= n THEN i ELSE 1]}
          ELSE {})

YahooInit ==
  /\ \E xs \in SeqsUpTo(YahooSamples, MaxYahoo) :
       /\ heap = [i \in 1 .. Len(xs) |-> YahooAsset(i, xs[i])]
       /\ assets \in YahooLists(Len(xs))
  /\ max \in 0 .. MaxLimit
  /\ orig = heap
  /\ prev = <<>>
  /\ now = 2
  /\ pc = "yloop"
  /\ pa = 0
  /\ pb = 0
  /\ ListIdle
  /\ permuted = <<>>
  /\ dedupAssets = <<>>
  /\ dedupPermuted = <<>>
  /\ RunIdle
  /\ clean = <<>>
  /\ legacyClean = <<>>
  /\ FigiIdle
  /\ idx = 1
  /\ callCount = 0
  /\ count = 0
  /\ started = <<>>
  /\ running = {}

yahooFixed ==
  <<orig, prev, now, mergeVars, listVars, dedupVars, runVars, clean,
    legacyClean, figiVars, max>>

\* one iteration of "for _, asset := range assets", the break included
EnrichLoop ==
  /\ pc = "yloop"
  /\ IF idx > Len(assets)
       THEN /\ pc' = "ywait"
            /\ UNCHANGED <<idx, callCount, started, running>>
       ELSE LET n == Lookups(heap[assets[idx]])
            IN  /\ callCount' = callCount + n
                /\ started' = started \o [i \in 1 .. n |-> assets[idx]]
                /\ running' =
                     running \cup (Len(started) + 1 .. Len(started) + n)
                /\ IF max > 0 /\ callCount + n > max
                     THEN pc' = "ywait" /\ UNCHANGED idx
                     ELSE pc' = "yloop" /\ idx' = idx + 1
  /\ UNCHANGED <<heap, count, yahooFixed>>

\* a goroutine: Download(myAsset), then count <- 1, which waits while the
\* channel holds len(assets) messages
EnrichDownload ==
  /\ count < Len(assets)
  /\ \E g \in running, resp \in YahooResponses :
       /\ heap' = [heap EXCEPT ![started[g]] = Downloaded(@, resp, now)]
       /\ running' = running \ {g}
  /\ count' = count + 1
  /\ UNCHANGED <<pc, idx, callCount, started, yahooFixed>>

\* a plausible slip: Enrich returns without waiting for the messages
EnrichReturnsAtOnce ==
  /\ pc = "ywait"
  /\ pc' = "ydone"
  /\ UNCHANGED <<heap, idx, callCount, count, started, running, yahooFixed>>

\* "for callCount > 0 { v := <-count; callCount -= v }" and the return
EnrichWait ==
  /\ pc = "ywait"
  /\ IF callCount > 0
       THEN /\ count > 0
            /\ count' = count - 1
            /\ callCount' = callCount - 1
            /\ UNCHANGED pc
       ELSE /\ pc' = "ydone"
            /\ UNCHANGED <<count, callCount>>
  /\ UNCHANGED <<heap, idx, started, running, yahooFixed>>

SpecYahoo ==
  YahooInit /\ [][EnrichLoop \/ EnrichDownload \/ EnrichWait]_vars

\* the same with the Go scheduler running every goroutine that can run, and
\* every Download returning
SpecYahooFair ==
  /\ SpecYahoo
  /\ WF_vars(EnrichLoop)
  /\ WF_vars(EnrichDownload)
  /\ WF_vars(EnrichWait)

(***************************************************************************)
(* figi.Enrich(assets) on a list of at most MaxFigi records, the mapping   *)
(* service answering for any of the tickers with any of the security       *)
(* types below.                                                            *)
(***************************************************************************)
MaxFigi == 2

\* <<asset type, composite figi, delisting date>>
FigiSamples ==
  {<<UnknownAsset, "", "">>,
   <<UnknownAsset, "BBG001", "">>,
   <<CommonStock, "", "">>,
   <<UnknownAsset, "", "2020-01-01">>,
   <<ETF, "BBG002", "">>}

FigiAsset(i, x) ==
  [EmptyAsset EXCEPT !.Ticker = DedupTicker(i),
                     !.AssetType = x[1],
                     !.CompositeFigi = x[2],
                     !.DelistingDate = x[3],
                     !.LastUpdated = 1]

\* <<SecurityType2, SecurityType>> of an answer
SecurityTypes ==
  {<<st2, "Common Stock">> :
     st2 \in {"Partnership Shares", "Depositary Receipt", "Common Stock", "",
              "Warrant"}}
    \cup {<<"Mutual Fund", st>> :
            st \in {"ETP", "Open-End Fund", "Closed-End Fund", "UIT"}}

FigiInit ==
  /\ \E xs \in SeqsUpTo(FigiSamples, MaxFigi) :
       /\ heap = [i \in 1 .. Len(xs) |-> FigiAsset(i, xs[i])]
       /\ assets = [i \in 1 .. Len(xs) |-> i]
  /\ orig = heap
  /\ prev = <<>>
  /\ now = 2
  /\ pc = "figi0"
  /\ pa = 0
  /\ pb = 0
  /\ ListIdle
  /\ permuted = <<>>
  /\ dedupAssets = <<>>
  /\ dedupPermuted = <<>>
  /\ RunIdle
  /\ AuxIdle

CallFigiEnrich ==
  /\ pc = "figi0"
  /\ \E found \in SUBSET TickersOf(heap, assets) :
       \E kinds \in [found -> SecurityTypes] :
         LET answers ==
               [tk \in found |->
                  [OpenFigiAssetOf(tk) EXCEPT !.SecurityType2 = kinds[tk][1],
                                              !.SecurityType = kinds[tk][2]]]
         IN  /\ heap' = FigiEnrich(heap, assets, answers, now)
             /\ figiMap' = answers
  /\ pc' = "figi1"
  /\ UNCHANGED <<orig, prev, now, mergeVars, listVars, dedupVars, runVars,
                 clean, legacyClean, yahooVars, requests, query>>

SpecFigi == FigiInit /\ [][CallFigiEnrich]_vars

(***************************************************************************)
(* figi.LookupFigi(assets, rateLimiter) on a list of at most MaxLookup     *)
(* records, one ticker each.                                               *)
(***************************************************************************)
MaxLookup == 101

LookupTicker(i) == "T" \o ToString(i)

LookupInit ==
  /\ \E n \in 0 .. MaxLookup :
       /\ heap = [i \in 1 .. n |->
                   [EmptyAsset EXCEPT !.Ticker = LookupTicker(i)]]
       /\ assets = [i \in 1 .. n |-> i]
  /\ orig = heap
  /\ prev = <<>>
  /\ now = 2
  /\ pc = "lookup0"
  /\ pa = 0
  /\ pb = 0
  /\ ListIdle
  /\ permuted = <<>>
  /\ dedupAssets = <<>>
  /\ dedupPermuted = <<>>
  /\ RunIdle
  /\ clean = <<>>
  /\ legacyClean = <<>>
  /\ max = 0
  /\ idx = 1
  /\ callCount = 0
  /\ count = 0
  /\ started = <<>>
  /\ running = {}
  /\ FigiIdle

lookupFixed ==
  <<heap, orig, prev, now, mergeVars, listVars, dedupVars, runVars, clean,
    legacyClean, max, callCount, count, started, running>>

\* mapFigis(q) and the loops that put its response into result; the request
\* is answered for every ticker or fails
SendQuery(q) ==
  /\ requests' = Append(requests, q)
  /\ \E answered \in BOOLEAN :
       LET answers == [tk \in (IF answered THEN {q[i] : i \in DOMAIN q}
                               ELSE {}) |-> OpenFigiAssetOf(tk)]
           tks == MapFigis(q, answers)
       IN  figiMap' = [tk \in DOMAIN figiMap \cup tks |->
                         IF tk \in tks THEN answers[tk] ELSE figiMap[tk]]

\* one iteration of "for _, asset := range assets"
LookupAppend ==
  /\ pc = "lookup0"
  /\ idx <= Len(assets)
  /\ LET q == Append(query, heap[assets[idx]].Ticker)
     IN  IF BatchFull(q)
           THEN SendQuery(q) /\ query' = <<>>
           ELSE query' = q /\ UNCHANGED <<requests, figiMap>>
  /\ idx' = idx + 1
  /\ UNCHANGED <<pc, lookupFixed>>

\* "if len(query) > 0 { ... }" after the loop, and the return
LookupReturn ==
  /\ pc = "lookup0"
  /\ idx > Len(assets)
  /\ IF Len(query) > 0
       THEN SendQuery(query)
       ELSE UNCHANGED <<requests, figiMap>>
  /\ pc' = "lookup1"
  /\ UNCHANGED <<idx, query, lookupFixed>>

SpecLookup == LookupInit /\ [][LookupAppend \/ LookupReturn]_vars

(***************************************************************************)
(* The root command: one run of rootCmd.Run, a step at a time.             *)
(***************************************************************************)
EXIT_CODE_POLYGON == "EXIT_CODE_POLYGON"
EXIT_CODE_ASSET_COUNT_OUT_OF_RANGE == "EXIT_CODE_ASSET_COUNT_OUT_OF_RANGE"
EXIT_CODE_DATABASE_ERROR == "EXIT_CODE_DATABASE_ERROR"

\* the values of polygon.min_assets and tiingo.min_assets
MinAssetsSamples == {<<1, 0>>, <<0, 1>>}

\* the configurations: every combination of the persistence settings, with
\* max_removed_count up to MaxThreshold
Configs ==
  {[databaseUrl |-> url, databaseSave |-> save, parquetFile |-> fn,
    skipUpload |-> skip, maxRemovedCount |-> m,
    polygonMinAssets |-> mins[1], tiingoMinAssets |-> mins[2],
    staticAssetsFn |-> "", blacklistFn |-> ""] :
     url \in {"", "host=localhost port=5432"}, save \in BOOLEAN,
     fn \in {"", "tickers.parquet"}, skip \in BOOLEAN,
     m \in 0 .. MaxThreshold, mins \in MinAssetsSamples}

\* <<ticker, asset type, composite figi>> of the records a feed may return
PolygonSamples ==
  {<<"AAA", CommonStock, "BBG001">>, <<"BBB", ETF, "BBG002">>,
   <<"Aaa", CommonStock, "BBG004">>}
TiingoSamples == {<<"CCC", MutualFund, "">>}

\* the name a feed gives for a ticker: that of AAA comes with blanks
\* around it
FeedName(tk) ==
  CASE tk = "AAA" -> " p "
    [] tk = "BBB" -> "q"
    [] OTHER -> ""

FeedAsset(x, source) ==
  [EmptyAsset EXCEPT !.Ticker = x[1], !.AssetType = x[2],
                     !.CompositeFigi = x[3], !.Name = FeedName(x[1]),
                     !.Source = source]

\* a row of a snapshot written by an earlier run, which trimmed the name
SnapshotRow(x) ==
  [EmptyAsset EXCEPT !.Ticker = x[1], !.AssetType = x[2],
                     !.CompositeFigi = x[3],
                     !.Name = TrimSpace(FeedName(x[1])),
                     !.ListingDate = "2019-01-01",
                     !.LastUpdated = 1]

SnapshotSamples ==
  {<<>>,
   <<SnapshotRow(<<"AAA", CommonStock, "BBG001">>)>>,
   <<SnapshotRow(<<"AAA", CommonStock, "BBG001">>),
     SnapshotRow(<<"BBB", ETF, "BBG002">>)>>}

TableRow(act, type, figi, delisted) ==
  [active |-> act, asset_type |-> type, composite_figi |-> figi,
   delisted_utc |-> delisted, updated |-> FALSE]

EmptyTable == [k \in {} |-> TableRow(FALSE, "", "", "")]

\* the tables a run may find
TableSamples ==
  {EmptyTable,
   "AAA" :> TableRow(TRUE, CommonStock, "BBG001", ""),
   "AAA" :> TableRow(TRUE, CommonStock, "BBG001", "")
     @@ "BBB" :> TableRow(TRUE, ETF, "BBG002", ""),
   "AAA" :> TableRow(TRUE, CommonStock, "BBG001", "")
     @@ "SYN" :> TableRow(TRUE, SyntheticHistory, "", ""),
   "AAA" :> TableRow(TRUE, CommonStock, "BBG001", "")
     @@ "BBB" :> TableRow(FALSE, ETF, "BBG002", "2020-01-01")}

\* the pointers of n records appended to the heap h
Fresh(h, n) == [i \in 1 .. n |-> Len(h) + i]

Init ==
  /\ cfg \in Configs
  /\ bucket \in SnapshotSamples
  /\ parquet = <<>>
  /\ db \in TableSamples
  /\ dbPrior = db
  /\ heap = <<>>
  /\ orig = <<>>
  /\ prev = <<>>
  /\ now = 2
  /\ pc = "download"
  /\ pa = 0
  /\ pb = 0
  /\ ListIdle
  /\ DedupIdle
  /\ polygonAssets = <<>>
  /\ polygonErr = FALSE
  /\ tiingoAssets = <<>>
  /\ mergedAssets = <<>>
  /\ assetsDb = <<>>
  /\ removedAssets = <<>>
  /\ numRemoved = -1
  /\ exitCode = ""
  /\ persisted = {}
  /\ AuxIdle

\* what no step of the run writes
runFixed == <<orig, prev, now, mergeVars, first, second, combinedAssets,
              dedupVars, cfg, dbPrior, auxVars>>

\* backblaze.Download(parquet_file, bucket): the snapshot of the bucket
\* becomes the local file
RunDownload ==
  /\ pc = "download"
  /\ parquet' = bucket
  /\ pc' = "polygon"
  /\ UNCHANGED <<heap, firstOnly, secondOnly, bucket, db, polygonAssets,
                 polygonErr, tiingoAssets, mergedAssets, assetsDb,
                 removedAssets, numRemoved, exitCode, persisted, runFixed>>

\* os.Exit(code)
Exit(code) ==
  /\ exitCode' = code
  /\ pc' = "exit"

\* a plausible slip: the operands of the comparison are exchanged
TooFewReversed(n, min) == n > min

\* len(assets) < viper.GetInt("....min_assets")
TooFew(n, min) == n < min

\* polygon.FetchAssets and the two checks that follow it
RunFetchPolygon ==
  /\ pc = "polygon"
  /\ \E feed \in SeqsUpTo(PolygonSamples, MaxFeed), err \in BOOLEAN :
       /\ polygonErr' = err
       /\ IF err
            THEN Exit(EXIT_CODE_POLYGON)
                 /\ UNCHANGED <<heap, polygonAssets>>
            ELSE /\ heap' = heap \o [i \in DOMAIN feed |->
                                       FeedAsset(feed[i], "api.polygon.io")]
                 /\ polygonAssets' = Fresh(heap, Len(feed))
                 /\ IF TooFew(Len(feed), cfg.polygonMinAssets)
                      THEN Exit(EXIT_CODE_ASSET_COUNT_OUT_OF_RANGE)
                      ELSE pc' = "tiingo" /\ UNCHANGED exitCode
  /\ UNCHANGED <<firstOnly, secondOnly, bucket, parquet, db, tiingoAssets,
                 mergedAssets, assetsDb, removedAssets, numRemoved, persisted,
                 runFixed>>

\* tiingo.FetchAssets, which gives an empty list when the download fails,
\* and the check that follows it
RunFetchTiingo ==
  /\ pc = "tiingo"
  /\ \E feed \in SeqsUpTo(TiingoSamples, MaxFeed) :
       /\ heap' = heap \o [i \in DOMAIN feed |->
                             FeedAsset(feed[i], "api.tiingo.com")]
       /\ tiingoAssets' = Fresh(heap, Len(feed))
       /\ IF TooFew(Len(feed), cfg.tiingoMinAssets)
            THEN Exit(EXIT_CODE_ASSET_COUNT_OUT_OF_RANGE)
            ELSE pc' = "merge" /\ UNCHANGED exitCode
  /\ UNCHANGED <<firstOnly, secondOnly, bucket, parquet, db, polygonAssets,
                 polygonErr, mergedAssets, assetsDb, removedAssets, numRemoved,
                 persisted, runFixed>>

\* the records ReadAssetsFromToml may return for a configured file
TomlSamples == {<<"FFF", FRED, "FRED00">>}

\* the merge of the two feeds, then of the static assets, then the removal
\* of the blacklisted assets
RunMergeFeeds ==
  /\ pc = "merge"
  /\ \E static \in (IF cfg.staticAssetsFn = "" THEN {<<>>}
                    ELSE SeqsUpTo(TomlSamples, 1)),
        black \in (IF cfg.blacklistFn = "" THEN {<<>>}
                   ELSE SeqsUpTo(TomlSamples, 1)) :
       LET r1 == MergeAssetList(heap, polygonAssets, tiingoAssets, now)
           h1 == r1.heap \o [i \in DOMAIN static |-> FeedAsset(static[i], "")]
           tomlAssets == Fresh(r1.heap, Len(static))
           r2 == IF cfg.staticAssetsFn # ""
                   THEN MergeAssetList(h1, r1.combinedAssets, tomlAssets, now)
                   ELSE r1
           h2 == r2.heap \o [i \in DOMAIN black |-> FeedAsset(black[i], "")]
           blacklisted == Fresh(r2.heap, Len(black))
       IN  /\ heap' = h2
           /\ mergedAssets' =
                IF cfg.blacklistFn # ""
                  THEN RemoveAssets(h2, r2.combinedAssets, blacklisted)
                  ELSE r2.combinedAssets
  /\ pc' = "parquet"
  /\ UNCHANGED <<firstOnly, secondOnly, bucket, parquet, db, polygonAssets,
                 polygonErr, tiingoAssets, assetsDb, removedAssets, numRemoved,
                 exitCode, persisted, runFixed>>

\* the merge with the parquet snapshot and the marking of its two differences
RunMergeParquet ==
  /\ pc = "parquet"
  /\ IF cfg.parquetFile # ""
       THEN LET read == ReadAssetsFromParquet(parquet)
                h1 == heap \o read
                parquetAssets == RemoveDelistedAssets(h1, Fresh(heap, Len(read)))
                r == MergeAssetList(h1, parquetAssets, mergedAssets, now)
            IN  /\ heap' = MarkParquetDiff(r.heap, r.firstOnly, r.secondOnly,
                                           now)
                /\ mergedAssets' = r.combinedAssets
                /\ firstOnly' = r.firstOnly
                /\ secondOnly' = r.secondOnly
       ELSE UNCHANGED <<heap, mergedAssets, firstOnly, secondOnly>>
  /\ pc' = "enrich"
  /\ UNCHANGED <<bucket, parquet, db, polygonAssets, polygonErr, tiingoAssets,
                 assetsDb, removedAssets, numRemoved, exitCode, persisted,
                 runFixed>>

\* the tickers figi.Enrich looks up
FigiLookups(h, list) ==
  {h[list[i]].Ticker : i \in {j \in DOMAIN list : NeedsFigi(h[list[j]])}}

\* figi.Enrich, CleanAssets, TrimWhiteSpace and FilterMixedCase.  The
\* descriptive fields that polygon.EnrichDetail and yfinance.Enrich fill in
\* between decide no later step and are left as they are.
RunEnrich ==
  /\ pc = "enrich"
  /\ \E found \in SUBSET FigiLookups(heap, mergedAssets) :
       LET answers == [tk \in found |-> OpenFigiAssetOf(tk)]
           h1 == FigiEnrich(heap, mergedAssets, answers, now)
           kept == CleanAssets(h1, mergedAssets)
           h2 == TrimWhiteSpace(h1, kept)
       IN  /\ heap' = h2
           /\ mergedAssets' = FilterMixedCase(h2, kept)
  /\ pc' = "valve"
  /\ UNCHANGED <<firstOnly, secondOnly, bucket, parquet, db, polygonAssets,
                 polygonErr, tiingoAssets, assetsDb, removedAssets, numRemoved,
                 exitCode, persisted, runFixed>>

\* the safety valve: the comparison with the active assets of the database
\* and the count of what the run removes
RunSafetyValve ==
  /\ pc = "valve"
  /\ IF cfg.databaseUrl = ""
       THEN /\ pc' = "saveParquet"
            /\ UNCHANGED <<heap, assetsDb, removedAssets, numRemoved, exitCode>>
       ELSE \E connected \in BOOLEAN :
              LET rows == ActiveAssetsFromDatabase(db, connected)
                  h1 == heap \o rows
                  loaded == Fresh(heap, Len(rows))
                  removed == SubtractAssets(h1, loaded, mergedAssets)
                  n == Len(removed) + CountDelisted(h1, mergedAssets)
              IN  /\ heap' = h1
                  /\ assetsDb' = loaded
                  /\ removedAssets' = removed
                  /\ numRemoved' = n
                  /\ IF ValveTrips(n, cfg.maxRemovedCount)
                       THEN Exit(EXIT_CODE_ASSET_COUNT_OUT_OF_RANGE)
                       ELSE pc' = "mark" /\ UNCHANGED exitCode
  /\ UNCHANGED <<firstOnly, secondOnly, bucket, parquet, db, polygonAssets,
                 polygonErr, tiingoAssets, mergedAssets, persisted, runFixed>>

\* the removed assets are marked and appended, and the list is saved to the
\* database when database.save is set
RunSaveToDatabase ==
  /\ pc = "mark"
  /\ LET h1 == MarkRemoved(heap, removedAssets, now)
         all == mergedAssets \o removedAssets
     IN  /\ mergedAssets' = all
         /\ IF cfg.databaseSave
              THEN \E failAt \in -1 .. Len(all) + 1 :
                     LET r == SaveToDatabase(db, h1, all, failAt)
                     IN  /\ heap' = r.heap
                         /\ IF r.err
                              THEN /\ Exit(EXIT_CODE_DATABASE_ERROR)
                                   /\ db' = r.db
                                   /\ UNCHANGED persisted
                              ELSE /\ db' = r.db
                                   /\ persisted' =
                                        persisted \cup {"SaveToDatabase"}
                                   /\ pc' = "saveParquet"
                                   /\ UNCHANGED exitCode
              ELSE /\ heap' = h1
                   /\ pc' = "saveParquet"
                   /\ UNCHANGED <<db, persisted, exitCode>>
  /\ UNCHANGED <<firstOnly, secondOnly, bucket, parquet, polygonAssets,
                 polygonErr, tiingoAssets, assetsDb, removedAssets, numRemoved,
                 runFixed>>

\* the list is written to the parquet file when one is configured
RunSaveToParquet ==
  /\ pc = "saveParquet"
  /\ IF cfg.parquetFile # ""
       THEN /\ parquet' = SaveToParquet(heap, mergedAssets)
            /\ persisted' = persisted \cup {"SaveToParquet"}
       ELSE UNCHANGED <<parquet, persisted>>
  /\ pc' = "upload"
  /\ UNCHANGED <<heap, firstOnly, secondOnly, bucket, db, polygonAssets,
                 polygonErr, tiingoAssets, mergedAssets, assetsDb,
                 removedAssets, numRemoved, exitCode, runFixed>>

\* backblaze.Upload unless backblaze.skip_upload is set
RunUpload ==
  /\ pc = "upload"
  /\ IF ~cfg.skipUpload
       THEN /\ bucket' = parquet
            /\ persisted' = persisted \cup {"Upload"}
       ELSE UNCHANGED <<bucket, persisted>>
  /\ pc' = "done"
  /\ UNCHANGED <<heap, firstOnly, secondOnly, parquet, db, polygonAssets,
                 polygonErr, tiingoAssets, mergedAssets, assetsDb,
                 removedAssets, numRemoved, exitCode, runFixed>>

Next ==
  \/ RunDownload
  \/ RunFetchPolygon
  \/ RunFetchTiingo
  \/ RunMergeFeeds
  \/ RunMergeParquet
  \/ RunEnrich
  \/ RunSafetyValve
  \/ RunSaveToDatabase
  \/ RunSaveToParquet
  \/ RunUpload

Spec == Init /\ [][Next]_vars

(***************************************************************************)
(* Properties of the field merge                                           *)
(***************************************************************************)
AfterFirstMerge == pc \in {"merge1", "legacy1"}
AfterSecondMerge == pc \in {"merge2", "legacy2"}

\* C4: MergeAsset is idempotent.  Merging a copy of a into a (a record equal
\* to a in every field, or a itself) leaves the whole heap as it was: no
\* field, no Updated flag, no UpdateReason, no LastUpdated changes; and a
\* second MergeAsset(a, b) with the same b changes nothing more.
C4_MergeIdempotent ==
  /\ (AfterFirstMerge /\ orig[pa] = orig[pb]) => heap = orig
  /\ AfterSecondMerge => heap = prev

C4_Witness ==
  /\ pc = "merge1"
  /\ pa # pb
  /\ orig[pa] = orig[pb]
  /\ orig[pa].CIK # ""
  /\ orig[pa].Source # ""
  /\ heap = orig

\* C5 as stated: never erases, for every field, Source and AssetType
\* included: an empty incoming value leaves a populated existing value alone.
C5_NeverErasesAnyField ==
  (AfterFirstMerge \/ AfterSecondMerge) =>
    \A f \in VaryFields :
      (orig[pb][f] = "" /\ orig[pa][f] # "") => heap[pa][f] = orig[pa][f]

\* C5 amended: never erases, for every field other than Source, in both
\* revisions; the current revision never erases Source either.
C5_NeverErasesExceptLegacySource ==
  /\ (AfterFirstMerge \/ AfterSecondMerge) =>
       \A f \in VaryFields \ {"Source"} :
         (orig[pb][f] = "" /\ orig[pa][f] # "") => heap[pa][f] = orig[pa][f]
  /\ pc \in {"merge1", "merge2"} =>
       ((orig[pb].Source = "" /\ orig[pa].Source # "")
          => heap[pa].Source = orig[pa].Source)

C5_Witness ==
  /\ pc = "merge1"
  /\ orig[pa].Ticker = orig[pb].Ticker
  /\ orig[pa].Name # "" /\ orig[pb].Name = ""
  /\ orig[pa].AssetType # "" /\ orig[pb].AssetType = ""
  /\ heap[pa].Name = orig[pa].Name

\* C6: MergeAsset on two records whose tickers differ returns a with every
\* field unchanged (Updated, UpdateReason and LastUpdated included) and
\* does not modify b.
C6_TickerMismatchNoOp ==
  ((AfterFirstMerge \/ AfterSecondMerge)
     /\ orig[pa].Ticker # orig[pb].Ticker) => heap = orig

C6_Witness ==
  /\ pc = "merge1"
  /\ orig[pa].Ticker # orig[pb].Ticker
  /\ orig[pb].CIK # ""
  /\ orig[pa].CIK # orig[pb].CIK
  /\ heap = orig

(***************************************************************************)
(* Properties of the list merge                                            *)
(***************************************************************************)
\* the entries of list l whose ticker is not a ticker of list m
EntriesNotIn(l, m) ==
  {i \in DOMAIN l : orig[l[i]].Ticker \notin TickersOf(orig, m)}

\* C7: diff coverage.  combinedAssets holds every ticker of second and every
\* ticker of first that is not in second (no ticker is dropped); its length
\* is the length of second plus the number of entries of first whose ticker
\* is not in second; firstOnly holds exactly the tickers of first not in
\* second, secondOnly exactly the tickers of second not in first.
C7_DiffCoverage ==
  pc \in {"list1", "list2"} =>
    /\ TickersOf(heap, combinedAssets) =
         TickersOf(orig, second) \cup TickersOf(orig, first)
    /\ Len(combinedAssets) =
         Len(second) + Cardinality(EntriesNotIn(first, second))
    /\ TickersOf(heap, firstOnly) =
         TickersOf(orig, first) \ TickersOf(orig, second)
    /\ TickersOf(heap, secondOnly) =
         TickersOf(orig, second) \ TickersOf(orig, first)

C7_Witness ==
  /\ pc = "list1"
  /\ Len(first) = 2
  /\ Len(second) = 2
  /\ Len(firstOnly) = 1
  /\ Len(secondOnly) = 1
  /\ Len(combinedAssets) = 3

\* every ticker occurs once in the list
UniqueTickers(h, l) ==
  \A i, j \in DOMAIN l : h[l[i]].Ticker = h[l[j]].Ticker => i = j

\* the two lists hold the same records (field for field)
SameRecords(h, l, m) ==
  /\ Len(l) = Len(m)
  /\ \A i \in DOMAIN l : \E j \in DOMAIN m : h[l[i]] = h[m[j]]
  /\ \A j \in DOMAIN m : \E i \in DOMAIN l : h[l[i]] = h[m[j]]

\* C8: round trip.  Reconciling a registry (one record per ticker) against
\* an identical incoming set yields no new record, no inferred delisting,
\* and leaves every record as it was: no DelistingDate set, no Updated
\* flag set, no LastUpdated changed - after MergeAssetList and after the
\* marking loops of the root command.
C8_RoundTrip ==
  (pc \in {"list1", "list2"}
     /\ UniqueTickers(orig, first)
     /\ SameRecords(orig, first, second)) =>
    /\ firstOnly = <<>>
    /\ secondOnly = <<>>
    /\ heap = orig

C8_Witness ==
  /\ pc = "list2"
  /\ Len(first) = 2
  /\ UniqueTickers(orig, first)
  /\ SameRecords(orig, first, second)
  /\ orig[first[1]] # orig[second[1]]
  /\ \A i \in DOMAIN first : orig[first[i]].Name # ""
  /\ heap = orig

\* the tickers held by both lists
SharedTickers == TickersOf(orig, first) \cap TickersOf(orig, second)

\* the positions of second whose record has ticker tk and a value for f
Incoming(tk, f) ==
  {i \in DOMAIN second :
     orig[second[i]].Ticker = tk /\ orig[second[i]][f] # ""}

\* the entries of the combined list for ticker tk
CombinedFor(tk) ==
  {combinedAssets[i] :
     i \in {j \in DOMAIN combinedAssets : heap[combinedAssets[j]].Ticker = tk}}

Range(q) == {q[i] : i \in DOMAIN q}

\* the groups of two or more records
Families == {k \in FigiKeys(heap, assets) : Len(FigiGroup(heap, assets, k)) > 1}

\* the record of list out that represents group k
SurvivorIn(out, k) == {p \in Range(out) : heap[p].CompositeFigi = k}

\* the type stage: CommonStock first, then Closed-End Fund, then the rest
TypeRank(a) ==
  IF a.AssetType = CommonStock THEN 0 ELSE IF a.AssetType = CEF THEN 1 ELSE 2

Members(k) == Range(FigiGroup(heap, assets, k))

BestTyped(k) ==
  {p \in Members(k) : \A q \in Members(k) : TypeRank(heap[p]) <= TypeRank(heap[q])}

\* the staged comparison singles out one record of group k: one record of
\* the best type, or best-typed records that all carry a parseable listing
\* date, one of them later than all the others
SinglesOut(k) ==
  \/ Cardinality(BestTyped(k)) = 1
  \/ /\ \A p \in BestTyped(k) : ParseDate(heap[p].ListingDate).ok
     /\ \E p \in BestTyped(k) : \A q \in BestTyped(k) \ {p} :
          ParseDate(heap[p].ListingDate).day > ParseDate(heap[q].ListingDate).day

\* C9 as stated: on any permutation of the input the same survivor is
\* selected for every group of records that share a composite identifier.
C9_SameSurvivorAnyPermutation ==
  pc = "dedup1" =>
    \A k \in FigiKeys(heap, assets) \ {""} :
      SurvivorIn(dedupAssets, k) = SurvivorIn(dedupPermuted, k)

\* C9 amended: on any permutation the same survivor is selected for every
\* group of one record and for every group in which the staged comparison
\* singles out one record; where records tie, or carry empty or unparseable
\* listing dates, the survivor depends on the input order.
C9_SameSurvivorWhenSingledOut ==
  pc = "dedup1" =>
    \A k \in FigiKeys(heap, assets) :
      (k \notin Families \/ SinglesOut(k)) =>
        SurvivorIn(dedupAssets, k) = SurvivorIn(dedupPermuted, k)

C9_Witness ==
  /\ pc = "dedup1"
  /\ Len(assets) = 3
  /\ permuted = <<3, 1, 2>>
  /\ \E k \in Families :
       /\ Len(FigiGroup(heap, assets, k)) = 3
       /\ Cardinality(BestTyped(k)) = 3
       /\ SinglesOut(k)
       /\ SurvivorIn(dedupAssets, k) = SurvivorIn(dedupPermuted, k)
       /\ SurvivorIn(dedupAssets, k) # {assets[1]}
       /\ SurvivorIn(dedupPermuted, k) # {permuted[1]}

\* C10: type priority.  In every group of two or more records, whatever the
\* order and the listing dates: if the group holds a CommonStock record the
\* survivor is a CommonStock record, otherwise if it holds a Closed-End
\* Fund record the survivor is a Closed-End Fund record.
C10_TypePriority ==
  pc = "dedup1" =>
    \A k \in Families : \A out \in {dedupAssets, dedupPermuted} :
      /\ Cardinality(SurvivorIn(out, k)) = 1
      /\ \A p \in SurvivorIn(out, k) :
           /\ (\E q \in Members(k) : heap[q].AssetType = CommonStock)
                => heap[p].AssetType = CommonStock
           /\ ((\A q \in Members(k) : heap[q].AssetType # CommonStock)
                 /\ (\E q \in Members(k) : heap[q].AssetType = CEF))
                => heap[p].AssetType = CEF

\* the example: {A MutualFund 2020-01-01, B CommonStock 2019-01-01,
\* C ClosedEndFund 2021-01-01} under one identifier gives B
C10_Witness ==
  /\ pc = "dedup1"
  /\ Len(assets) = 3
  /\ heap[1].CompositeFigi = "BBG000" /\ heap[1].AssetType = MutualFund
  /\ heap[1].ListingDate = "2020-01-01"
  /\ heap[2].CompositeFigi = "BBG000" /\ heap[2].AssetType = CommonStock
  /\ heap[2].ListingDate = "2019-01-01"
  /\ heap[3].CompositeFigi = "BBG000" /\ heap[3].AssetType = CEF
  /\ heap[3].ListingDate = "2021-01-01"
  /\ dedupAssets = <<2>>
  /\ dedupPermuted = <<2>>

\* the record the date stage is to select in group k of the list l, whose
\* records no type stage tells apart: the first-encountered of the records
\* with the latest parseable listing date, or the first-encountered record
\* when no listing date parses
DateStageChoice(l, k) ==
  LET v == FigiGroup(heap, l, k)
      dated == {i \in DOMAIN v : ParseDate(heap[v[i]].ListingDate).ok}
      latest == {i \in dated : \A j \in dated :
                   ParseDate(heap[v[i]].ListingDate).day
                     >= ParseDate(heap[v[j]].ListingDate).day}
      cands == IF dated = {} THEN DOMAIN v ELSE latest
  IN  v[CHOOSE i \in cands : \A j \in cands : i <= j]

\* the groups of two or more records with an identifier in which neither
\* the CommonStock nor the Closed-End Fund stage discriminates
SameTypeFamilies == {k \in Families \ {""} : BestTyped(k) = Members(k)}

\* C16: date stage.  In a group of two or more records where neither the
\* CommonStock nor the Closed-End Fund stage discriminates, the survivor is
\* the record with the latest parseable ListingDate; a record with an empty
\* or unparseable ListingDate is never selected over a record with a
\* parseable one, and only among the records that no stage discriminates is
\* the first-encountered one kept.
C16_DateStage ==
  pc = "dedup1" =>
    \A k \in SameTypeFamilies :
      /\ SurvivorIn(dedupAssets, k) = {DateStageChoice(assets, k)}
      /\ SurvivorIn(dedupPermuted, k) = {DateStageChoice(permuted, k)}

\* C17: DeduplicateCompositeFigi never groups records whose composite
\* identifier is empty.  Every input record with an empty identifier is
\* present in the output, unchanged, however many such records there are;
\* and every record whose identifier is held by no other record is present
\* unchanged.
C17_EmptyIdentifierPassesThrough ==
  pc = "dedup1" =>
    \A out \in {dedupAssets, dedupPermuted} : \A p \in Range(assets) :
      (\/ orig[p].CompositeFigi = ""
       \/ Len(FigiGroup(orig, assets, orig[p].CompositeFigi)) = 1)
        => (p \in Range(out) /\ heap[p] = orig[p])

(***************************************************************************)
(* Properties of the root command                                          *)
(***************************************************************************)
\* the records the run has marked delisted or found missing: the records of
\* the reconciled list that carry a delisting date, and the database assets
\* the run found missing from it
MarkedInRun ==
  {mergedAssets[i] : i \in {j \in DOMAIN mergedAssets :
                              heap[mergedAssets[j]].DelistingDate # ""}}
    \cup {removedAssets[i] : i \in DOMAIN removedAssets}

\* C1: in every run, under every configuration (an empty database.url and
\* database.save = false included), when the number of records removed or
\* marked delisted exceeds max_removed_count nothing is persisted: no
\* database write, no parquet write and no upload has happened.
C1_ValveExceededNothingPersisted ==
  Cardinality(MarkedInRun) > cfg.maxRemovedCount => persisted = {}

\* the entries of assetsDb whose ticker no record of the reconciled list
\* carries
MissingFromReconciled ==
  {i \in DOMAIN assetsDb :
     \A j \in DOMAIN mergedAssets :
       heap[mergedAssets[j]].Ticker # heap[assetsDb[i]].Ticker}

\* the entries of the reconciled list with a non-empty DelistingDate
DelistedReconciled ==
  {j \in DOMAIN mergedAssets : heap[mergedAssets[j]].DelistingDate # ""}

RemovalCount ==
  Cardinality(MissingFromReconciled) + Cardinality(DelistedReconciled)

\* the valve has just compared the count with the maximum
ValveDecided ==
  /\ numRemoved # -1
  /\ \/ pc = "mark"
     \/ pc = "exit" /\ exitCode = EXIT_CODE_ASSET_COUNT_OUT_OF_RANGE

\* C2: the valve stops the run exactly when the removal count is strictly
\* greater than max_removed_count: at a count equal to the maximum the run
\* goes on to the database step, one above it the run exits.  The count is
\* the number of active database assets missing from the reconciled list
\* plus the number of reconciled records with a non-empty DelistingDate, and
\* no record is counted twice.
C2_ValveStrictlyGreater ==
  ValveDecided =>
    /\ numRemoved = RemovalCount
    /\ pc = "exit" <=> RemovalCount > cfg.maxRemovedCount
    /\ pc = "mark" <=> RemovalCount <= cfg.maxRemovedCount
    /\ pc = "mark" => exitCode = ""
    /\ {assetsDb[i] : i \in MissingFromReconciled}
         \cap {mergedAssets[j] : j \in DelistedReconciled} = {}
    /\ Cardinality({mergedAssets[j] : j \in DelistedReconciled})
         = Cardinality(DelistedReconciled)

\* a run whose count equals a maximum of two, one asset missing from the
\* reconciled list and one record delisted against the snapshot, has
\* passed the valve and saved to the database
C2_Witness ==
  /\ pc = "done"
  /\ numRemoved = cfg.maxRemovedCount
  /\ Len(removedAssets) = 1
  /\ numRemoved = 2
  /\ "SaveToDatabase" \in persisted

\* the rows that were active before the run and are inactive after it
Deactivated ==
  {k \in DOMAIN dbPrior : dbPrior[k].active /\ ~db[k].active}

\* C3: in a run that saves to the database, the number of rows that go from
\* active to inactive is at most max_removed_count, whatever the table held
\* before (rows the run does not load, such as those of asset type
\* 'Synthetic History', included).
C3_DeactivatedAtMostMax ==
  "SaveToDatabase" \in persisted =>
    Cardinality(Deactivated) <= cfg.maxRemovedCount

(***************************************************************************)
(* Properties of the list that reaches persistence                         *)
(***************************************************************************)
\* two entries of the list point at records with one non-empty composite figi
SharesFigi(h, l) ==
  \E i, j \in DOMAIN l :
    /\ i # j
    /\ l[i] # l[j]
    /\ h[l[i]].CompositeFigi # ""
    /\ h[l[i]].CompositeFigi = h[l[j]].CompositeFigi

\* C11: after the processing of the run and before persistence, no two
\* records handed to SaveToDatabase or SaveToParquet share the same non-empty
\* composite identifier.
C11_NoSharedIdentifierPersisted ==
  (persisted \cap {"SaveToDatabase", "SaveToParquet"} # {})
    => ~SharesFigi(heap, mergedAssets)

(***************************************************************************)
(* Properties of CleanAssets                                               *)
(***************************************************************************)
\* the positions of the input list whose record has a composite figi and,
\* when typed is set, an asset type other than Unknown
KeptPositions(typed) ==
  {i \in DOMAIN assets :
     /\ heap[assets[i]].CompositeFigi # ""
     /\ typed => heap[assets[i]].AssetType # UnknownAsset}

\* out holds the entries of the input list at the positions K, in input order
IsSelection(out, K) ==
  /\ Len(out) = Cardinality(K)
  /\ \A i \in K : out[Cardinality({j \in K : j <= i})] = assets[i]

PolygonFetched == pc \notin {"download", "polygon"} /\ ~polygonErr
TiingoFetched ==
  /\ PolygonFetched
  /\ ~TooFew(Len(polygonAssets), cfg.polygonMinAssets)
  /\ pc # "tiingo"

UpstreamFailed ==
  \/ polygonErr
  \/ PolygonFetched /\ Len(polygonAssets) < cfg.polygonMinAssets
  \/ TiingoFetched /\ Len(tiingoAssets) < cfg.tiingoMinAssets

\* C14: kill switch on upstream failure.  If the polygon fetch returns an
\* error, or polygon returns fewer than polygon.min_assets assets, or tiingo
\* returns fewer than tiingo.min_assets assets, the run exits with an error
\* status before any merge with the existing registry and before any
\* database write, parquet write or upload.
C14_KillSwitch ==
  UpstreamFailed =>
    /\ pc = "exit"
    /\ exitCode =
         IF polygonErr THEN EXIT_CODE_POLYGON
         ELSE EXIT_CODE_ASSET_COUNT_OUT_OF_RANGE
    /\ mergedAssets = <<>>
    /\ firstOnly = <<>> /\ secondOnly = <<>>
    /\ numRemoved = -1
    /\ persisted = {}
    /\ db = dbPrior
    /\ parquet = bucket

\* the tiingo download failed and gave no assets, after polygon had given
\* enough
C14_Witness ==
  /\ pc = "exit"
  /\ ~polygonErr
  /\ Len(polygonAssets) = 1
  /\ tiingoAssets = <<>>
  /\ cfg.tiingoMinAssets = 1
  /\ cfg.databaseSave
  /\ exitCode = EXIT_CODE_ASSET_COUNT_OUT_OF_RANGE

(***************************************************************************)
(* Properties of yfinance.Enrich                                           *)
(***************************************************************************)
\* C15: yfinance.Enrich called with a limit max > 0 starts at most max
\* Download calls; with max = 0 it starts one Download for every record that
\* needs an update.
C15_LimitBoundsDownloads ==
  /\ (pc \in {"yloop", "ywait", "ydone"} /\ max > 0) => Len(started) <= max
  /\ (pc \in {"ywait", "ydone"} /\ max = 0) =>
       /\ Len(started) = NumAssetsNeedingUpdate(orig, assets)
       /\ \A i \in DOMAIN assets :
            Lookups(orig[assets[i]]) =
              Cardinality({g \in DOMAIN started : started[g] = assets[i]})

(***************************************************************************)
(* Properties of the order of trimming and merging                         *)
(***************************************************************************)
\* the records whose latest change, as MergeAsset recorded it, is a change
\* of a free-text field
FreeTextChanges ==
  {p \in DOMAIN heap :
     /\ heap[p].Updated
     /\ Len(heap[p].UpdateReason) = 3
     /\ heap[p].UpdateReason[1] \in TrimFields}

\* C18: TrimWhiteSpace is applied to every record before any merge
\* comparison of the run.  No MergeAsset call compares a free-text field
\* that has not yet been trimmed, so an incoming value that differs from the
\* existing one only by leading or trailing whitespace never sets the
\* Updated flag.
C18_TrimmedBeforeMerge ==
  \A p \in FreeTextChanges :
    LET old == heap[p].UpdateReason[2]
        new == heap[p].UpdateReason[3]
    IN  /\ TrimSpace(old) = old
        /\ TrimSpace(new) = new
        /\ TrimSpace(old) # TrimSpace(new)

(***************************************************************************)
(* Properties of delisted records                                          *)
(***************************************************************************)
\* C19: a record whose DelistingDate is already set is excluded from
\* merges.  No reconciliation step passes it to MergeAsset as the merge
\* target, and no operation of the run changes its DelistingDate or any
\* other field afterwards.
C19_DelistedRecordFrozen ==
  [][\A p \in DOMAIN heap :
       heap[p].DelistingDate # "" => heap'[p] = heap[p]]_vars

\* the tickers an earlier run has persisted as delisted: the rows the run
\* found inactive with a delisting date
PersistedDelisted ==
  {k \in DOMAIN dbPrior :
     ~dbPrior[k].active /\ dbPrior[k].delisted_utc # ""}

\* C20: delisting is terminal across runs.  Once a run has persisted a
\* ticker as delisted (database row inactive with a delisting date), no
\* later run persists that ticker as active again or clears its delisting
\* date, even if the ticker reappears in an upstream feed.
C20_DelistingTerminalAcrossRuns ==
  \A k \in PersistedDelisted :
    /\ ~db[k].active
    /\ db[k].delisted_utc # ""

\* the records the run has inferred to be delisted: the records found in
\* the snapshot only, and the active database assets found missing from the
\* reconciled list once the run has marked them
InferredDelistings ==
  {firstOnly[i] : i \in DOMAIN firstOnly}
    \cup (IF pc \in {"saveParquet", "upload", "done"}
            THEN {removedAssets[i] : i \in DOMAIN removedAssets} ELSE {})

\* the stores of the run carry the ticker with a delisting date: a row of
\* the parquet file, or the row of the table after this run has saved to it
PersistedWithDelisting(tk) ==
  \/ \E i \in DOMAIN parquet :
       parquet[i].Ticker = tk /\ parquet[i].DelistingDate # ""
  \/ /\ "SaveToDatabase" \in persisted
     /\ tk \in DOMAIN db
     /\ db[tk].delisted_utc # ""

\* C21: a record marked delisted in a run is included in the persisted
\* output of that run carrying its delisting date, and is absent from what
\* a later run reconciles while the feeds omit it: no row of the snapshot
\* brings it back as a listed record.
C21_DelistedPersistedWithDate ==
  pc = "done" =>
    \A p \in InferredDelistings :
      /\ PersistedWithDelisting(heap[p].Ticker)
      /\ \A i \in DOMAIN parquet :
           parquet[i].Ticker = heap[p].Ticker
             => parquet[i].DelistingDate # ""

\* C22: every inferred delisting of a run, whether inferred against the
\* parquet snapshot or against the database, has DelistingDate set to the
\* current date, LastUpdated refreshed, Updated set with the reason "asset
\* delisted", and is in the list the run hands to persistence.
C22_InferredDelistingMarked ==
  pc \in {"saveParquet", "upload", "done"} =>
    \A p \in InferredDelistings :
      /\ heap[p].DelistingDate = DateOf(now)
      /\ heap[p].LastUpdated = now
      /\ heap[p].Updated
      /\ heap[p].UpdateReason = <<"asset delisted">>
      /\ \E i \in DOMAIN mergedAssets : mergedAssets[i] = p

(***************************************************************************)
(* Further properties of the field merge                                   *)
(***************************************************************************)
\* the incoming record with its asset type replaced by that of the existing
\* record: what the merge would have been given without the type conflict
SameTypeIncoming == [orig[pb] EXCEPT !.AssetType = orig[pa].AssetType]

\* C23: MergeAsset changes AssetType only when the existing value is empty
\* and the incoming one is not (and the current revision then takes the
\* incoming type); when both are populated and differ the existing type is
\* kept, and every other field, the flag and the timestamp come out as they
\* would without the type conflict.
C23_AssetTypeOnlyFilled ==
  pc \in {"merge1", "legacy1"} =>
    /\ heap[pa].AssetType # orig[pa].AssetType =>
         /\ orig[pa].AssetType = ""
         /\ orig[pb].AssetType # ""
         /\ heap[pa].AssetType = orig[pb].AssetType
    /\ ( /\ pc = "merge1"
         /\ orig[pa].Ticker = orig[pb].Ticker
         /\ orig[pa].AssetType = ""
         /\ orig[pb].AssetType # "" )
         => heap[pa].AssetType = orig[pb].AssetType
    /\ ( /\ orig[pa].AssetType # ""
         /\ orig[pb].AssetType # ""
         /\ orig[pa].AssetType # orig[pb].AssetType )
         => /\ heap[pa].AssetType = orig[pa].AssetType
            /\ heap[pa] = IF pc = "merge1"
                            THEN MergeRecord(orig[pa], SameTypeIncoming, now)
                            ELSE LegacyMergeRecord(orig[pa], SameTypeIncoming,
                                                   now)

\* a merge of two records of one ticker with two different populated types
\* that also differ in their names: the name was merged, the type was kept
C23_Witness ==
  /\ pc = "merge1"
  /\ pa # pb
  /\ orig[pa].Ticker = orig[pb].Ticker
  /\ orig[pa].AssetType = CommonStock
  /\ orig[pb].AssetType = MutualFund
  /\ heap[pa].AssetType = CommonStock
  /\ heap[pa].Name = "q"
  /\ heap[pa].Updated

\* C24: MergeAsset overwrites the Source of the existing record with the
\* incoming Source whenever the two differ, an empty incoming Source
\* included.
C24_SourceOverwritten ==
  ( /\ pc \in {"merge1", "legacy1"}
    /\ orig[pa].Ticker = orig[pb].Ticker )
    => heap[pa].Source = orig[pb].Source

\* the fields of the existing record that the merge has changed
ChangedFields ==
  {f \in {MergeFields[i] : i \in DOMAIN MergeFields} :
     heap[pa][f] # orig[pa][f]}

\* the reason r tells that field f went from old to new
ReasonRecords(r, f, old, new) ==
  \E i \in 1 .. Len(r) :
    /\ i % 3 = 1
    /\ i + 2 <= Len(r)
    /\ r[i] = f
    /\ r[i + 1] = old
    /\ r[i + 2] = new

\* C25: after a MergeAsset call that changes one or more fields, the
\* Updated flag is set, LastUpdated is refreshed, and the update reason
\* records every changed field with its old and its new value: no reason
\* is lost when several fields change in one merge.
C25_EveryChangeRecorded ==
  (pc = "merge1" /\ ChangedFields # {}) =>
    /\ heap[pa].Updated
    /\ heap[pa].LastUpdated = now
    /\ \A f \in ChangedFields :
         ReasonRecords(heap[pa].UpdateReason, f, orig[pa][f], heap[pa][f])

(***************************************************************************)
(* Properties of figi.Enrich and figi.LookupFigi                           *)
(***************************************************************************)
\* the asset type a fund of the given SecurityType is to get
FundTypeExpected(securityType) ==
  CASE securityType = "ETP" -> ETF
    [] securityType = "Open-End Fund" -> MutualFund
    [] securityType = "Closed-End Fund" -> CEF
    [] OTHER -> UnknownAsset

\* C26: in figi.Enrich, for a record of type Unknown that the service
\* answers with SecurityType2 "Mutual Fund", the resulting asset type is
\* decided by SecurityType: ETP gives ETF, Open-End Fund gives mutual fund,
\* Closed-End Fund gives closed-end fund, and any other SecurityType leaves
\* the type Unknown.
C26_FundTypeBySecurityType ==
  pc = "figi1" =>
    \A i \in DOMAIN assets :
      LET p == assets[i]
          tk == orig[p].Ticker
      IN  ( /\ orig[p].AssetType = UnknownAsset
            /\ orig[p].DelistingDate = ""
            /\ tk \in DOMAIN figiMap
            /\ figiMap[tk].SecurityType2 = "Mutual Fund" )
            => heap[p].AssetType = FundTypeExpected(figiMap[tk].SecurityType)

(***************************************************************************)
(* Properties of the goroutines of yfinance.Enrich                         *)
(***************************************************************************)
\* C27: yfinance.Enrich returns only after every Download goroutine it
\* started has finished, so no record is written by a download once the
\* following steps of the pipeline read it; and Enrich does return whenever
\* every Download returns.
C27_ReturnsAfterAllDownloads ==
  /\ [](pc = "ydone" => (running = {} /\ callCount = 0))
  /\ [][pc = "ydone" => heap' = heap]_vars
  /\ <>(pc = "ydone")

\* Enrich has returned after three downloads, one of which has written its
\* record
C27_Witness ==
  /\ pc = "ydone"
  /\ Len(started) = 3
  /\ running = {}
  /\ heap # orig

\* C28: during yfinance.Enrich no record is written by two Download
\* goroutines at the same time: for every input list, one in which the same
\* record pointer occurs more than once included, at most one goroutine is
\* started per record.
C28_OneGoroutinePerRecord ==
  /\ \A g1, g2 \in running : started[g1] = started[g2] => g1 = g2
  /\ \A g1, g2 \in DOMAIN started : started[g1] = started[g2] => g1 = g2

(***************************************************************************)
(* Properties of the database save                                         *)
(***************************************************************************)
\* C29: SaveToDatabase is all-or-nothing.  When resetting the flags or
\* upserting a record fails, an error is returned and the table is as it
\* was; in the root command the failed save ends the run before the parquet
\* snapshot is written or uploaded, so that the snapshot is never newer
\* than the database: the table changes only in a run whose save has
\* completed, and a run that is to save writes the snapshot only after it.
C29_SaveAllOrNothing ==
  /\ exitCode = EXIT_CODE_DATABASE_ERROR =>
       /\ pc = "exit"
       /\ db = dbPrior
       /\ persisted = {}
       /\ parquet = bucket
  /\ db # dbPrior => "SaveToDatabase" \in persisted
  /\ ( /\ persisted \cap {"SaveToParquet", "Upload"} # {}
       /\ cfg.databaseUrl # ""
       /\ cfg.databaseSave )
       => "SaveToDatabase" \in persisted

\* a save has failed at its last record or at the commit, after the records
\* before it were upserted: the asset missing from the reconciled list, the
\* last of the list, has been given its default source; the run has a
\* parquet file and an upload configured and has exited
C29_Witness ==
  /\ pc = "exit"
  /\ exitCode = EXIT_CODE_DATABASE_ERROR
  /\ cfg.parquetFile # ""
  /\ ~cfg.skipUpload
  /\ Len(removedAssets) = 1
  /\ Len(mergedAssets) >= 2
  /\ heap[removedAssets[1]].Source # ""

(***************************************************************************)
(* Properties of the batches of figi.LookupFigi                            *)
(***************************************************************************)
\* the queries of all requests, in the order sent
RECURSIVE Flatten(_)
Flatten(reqs) ==
  IF reqs = <<>> THEN <<>> ELSE Head(reqs) \o Flatten(Tail(reqs))

\* C30: figi.LookupFigi never sends more than 100 queries in one mapping
\* request, so that mapFigis never meets "too many assets in request", and
\* the ticker of every input record is sent in exactly one request (the
\* requests, put end to end, are the tickers of the input in its order, and
\* no request is empty), whatever the length of the input, 0, 100 and 101
\* included.
C30_BatchesOfAtMostHundred ==
  /\ \A r \in DOMAIN requests :
       Len(requests[r]) <= 100 /\ Len(requests[r]) > 0
  /\ pc = "lookup1" =>
    /\ Flatten(requests) = [i \in DOMAIN assets |-> heap[assets[i]].Ticker]
    /\ Len(assets) = 0 => requests = <<>>
    /\ Len(assets) = 100 => Len(requests) = 1
    /\ Len(assets) = 101 =>
         Len(requests) = 2 /\ Len(requests[1]) = 100 /\ Len(requests[2]) = 1

\* a list of 101 records has been looked up in two requests and the service
\* has answered both
C30_Witness ==
  /\ pc = "lookup1"
  /\ Len(assets) = 101
  /\ Len(requests) = 2
  /\ DOMAIN figiMap = TickersOf(heap, assets)
====
